---- MODULE Spec2Model ----
(***************************************************************************)
(* Model of the notes backend (apps/backend): the note store with its      *)
(* CRUD operations, the create_note pipeline (existence check, transcript  *)
(* acquisition, generation, validation, persistence), the generator's      *)
(* parse/structure/validate steps and the caption parser.                  *)
(*                                                                         *)
(* Python values are tagged records, so that None, strings, numbers, lists *)
(* and dicts can live in the same field:                                   *)
(*   None -> [t |-> "none"]            "ab" -> [t |-> "str", v |-> <<"a","b">>] *)
(*   7    -> [t |-> "int", v |-> 7]    [..] -> [t |-> "list", v |-> <<..>>]     *)
(*   {..} -> [t |-> "dict", v |-> function from keys to values]            *)
(* A string is a sequence of one-character strings.  A text that carries a *)
(* JSON or XML document is a sequence of lexical tokens.                   *)
(***************************************************************************)
EXTENDS Integers, Sequences, FiniteSets, TLC

VARIABLES
    notes,      \* the rows of table "notes": a set of Note records
    nextId,     \* next value of the primary-key sequence
    now,        \* the next reading of datetime.utcnow(); readings never repeat
    pc,         \* per request slot: the step the call is at
    req,        \* per request slot: the call's arguments, the rows stored when
                \* it started, the row its session holds
    video,      \* per request slot: what the acquirer returned
    generated,  \* per request slot: what the generator returned
    result,     \* per request slot: how the call ended
    trace,      \* per request slot: the stages and collaborators run so far
    last,       \* the get/update/delete call that ended last, and its status
    xmlIn,      \* caption parser: the markup handed to it
    xmlOut,     \* caption parser: what it returned
    genIn,      \* generator: the parsed candidate and the inputs
    genOut,     \* generator: outcome of structuring and validating genIn
    acqIn,      \* per request slot: what the platform and the services answer
                \* to the acquirer
    acqOut,     \* per request slot: the acquirer's outcome and the calls it made
    listIn,     \* get_notes: the stored rows and the arguments
    listOut,    \* get_notes: the dictionary it returned
    caller,     \* the request at a notes route: its arguments, what the
                \* authentication dependency made of it, and whether the
                \* endpoint has been called
    deleted,    \* history: [id, user_id, youtube_url] of the rows that
                \* delete_note removed
    users,      \* the rows of table "users": a set of User records
    nextUserId, \* next value of the primary-key sequence of table "users"
    files       \* the names of the files in directory temp_audio_files

vars == <<notes, nextId, now, pc, req, video, generated, result, trace,
          last, xmlIn, xmlOut, genIn, genOut, acqIn, acqOut, listIn, listOut, caller,
          deleted, users, nextUserId, files>>

-----------------------------------------------------------------------------
(* Bounds *)

MaxId == 2
MaxClock == 4
MaxMarkupLen == 5
MaxResponseLen == 3
MaxTracks == 2
MaxRows == 3

\* the most rows table "users" holds
MaxUsers == 3

-----------------------------------------------------------------------------
(* Python values *)

PyNone == [t |-> "none"]

PyStr(s) == [t |-> "str", v |-> s]

PyInt(n) == [t |-> "int", v |-> n]

PyBool(b) == [t |-> "bool", v |-> b]

\* the float of integral value n, as json.loads gives for "n.0"
PyFloat(n) == [t |-> "float", v |-> n]

\* a datetime, counted in days
PyDatetime(n) == [t |-> "datetime", v |-> n]

PyList(l) == [t |-> "list", v |-> l]

PyDict(f) == [t |-> "dict", v |-> f]

\* bool(x)
Truthy(x) ==
    CASE x.t = "none" -> FALSE
      [] x.t = "str"  -> Len(x.v) > 0
      [] x.t = "int"  -> x.v # 0
      [] x.t = "float" -> x.v # 0
      [] x.t = "bool" -> x.v
      [] x.t = "list" -> Len(x.v) > 0
      [] x.t = "dict" -> DOMAIN x.v # {}

\* isinstance(x, list)
IsList(x) == x.t = "list"

\* str(x): a string is itself; every other value prints as a non-blank text
StrOf(x) ==
    CASE x.t = "str"  -> x.v
      [] x.t = "none" -> <<"N", "o", "n", "e">>
      [] x.t = "int"  -> <<ToString(x.v)>>
      [] x.t = "float" -> <<ToString(x.v), ".", "0">>
      [] x.t = "bool" -> IF x.v THEN <<"T", "r", "u", "e">> ELSE <<"F", "a", "l", "s", "e">>
      [] x.t = "list" -> <<"[", "]">>
      [] x.t = "dict" -> <<"{", "}">>

\* d.get(k, default) on a dict d
DictGet(d, k, default) == IF k \in DOMAIN d.v THEN d.v[k] ELSE default

-----------------------------------------------------------------------------
(* Strings *)

Whitespace == {" ", "\n", "\t"}

SetMin(S) == CHOOSE x \in S : \A y \in S : x <= y

SetMax(S) == CHOOSE x \in S : \A y \in S : x >= y

\* s.strip()
Strip(s) ==
    LET keep == {i \in 1..Len(s) : s[i] \notin Whitespace}
    IN  IF keep = {} THEN <<>> ELSE SubSeq(s, SetMin(keep), SetMax(keep))

\* re.sub(r'\s+', ' ', s)
RECURSIVE CollapseWhitespace(_)
CollapseWhitespace(s) ==
    IF s = <<>> THEN <<>>
    ELSE IF Head(s) \in Whitespace
         THEN IF Len(s) > 1 /\ s[2] \in Whitespace
              THEN CollapseWhitespace(Tail(s))
              ELSE <<" ">> \o CollapseWhitespace(Tail(s))
         ELSE <<Head(s)>> \o CollapseWhitespace(Tail(s))

\* sep.join(parts), parts a sequence of strings
RECURSIVE Join(_, _)
Join(sep, parts) ==
    IF parts = <<>> THEN <<>>
    ELSE IF Len(parts) = 1 THEN parts[1]
    ELSE parts[1] \o sep \o Join(sep, Tail(parts))

\* s.startswith(prefix)
StartsWith(s, prefix) ==
    Len(s) >= Len(prefix) /\ SubSeq(s, 1, Len(prefix)) = prefix

\* s.endswith(suffix)
EndsWith(s, suffix) ==
    Len(s) >= Len(suffix) /\ SubSeq(s, Len(s) - Len(suffix) + 1, Len(s)) = suffix

Range(s) == {s[i] : i \in 1..Len(s)}

-----------------------------------------------------------------------------
(* Outcomes of a call: a normal return, an HTTPException, or another       *)
(* exception.  The detail of an exception is its message, a sequence of    *)
(* text pieces.                                                            *)

Returned(value) == [kind |-> "return", status |-> 0, detail |-> <<>>, value |-> value]

HttpError(status, detail) == [kind |-> "http", status |-> status, detail |-> detail, value |-> PyNone]

Raised(msg) == [kind |-> "raise", status |-> 0, detail |-> msg, value |-> PyNone]

StatusText(status) ==
    CASE status = 500 -> "500"
      [] status = 404 -> "404"
      [] status = 403 -> "403"
      [] OTHER -> "0"

\* str(e): an HTTPException prints as "<status_code>: <detail>"
StrOfError(o) ==
    IF o.kind = "http" THEN <<StatusText(o.status), ": ">> \o o.detail ELSE o.detail

\* type(x).__name__
TypeName(x) == IF x.t = "none" THEN "NoneType" ELSE x.t

\* the message of the AttributeError raised by x.get / x.strip on a value without it
AttributeErrorMsg(x, attr) == <<"'", TypeName(x), "' object has no attribute '", attr, "'">>

-----------------------------------------------------------------------------
(* Note generator: NoteService._generate_note_with_gemini                  *)

RequiredFields == <<"video_title", "channel_name", "summary", "key_points", "timestamps">>

SummaryLimit == 1000

\* the three-backquote fence marker; "BQ" stands for one backquote character
Fence == <<"BQ", "BQ", "BQ">>

FenceJson == Fence \o <<"j", "s", "o", "n">>

\* The JSON documents a response text may carry, each one lexical token.
\* "{full}"     {"video_title": "T", "channel_name": "C", "summary": "S",
\*               "key_points": ["k1", "k2"], "timestamps": [{"time": "00:10", ...}]}
\* "{no-title}" the same without the video_title and channel_name keys
\* "{empty-kp}" the same with "key_points": []
\* "{blank}"    the empty-subtitle answer of the prompt: "summary": "",
\*               "key_points": [], "timestamps": []
\* "{kp-str}"   the same as {full} with "key_points": "k1"
\* A JSON list is written out in tokens: "[", item, ",", item, "]".
FullNote ==
    ("video_title" :> PyStr(<<"T">>)) @@ ("channel_name" :> PyStr(<<"C">>))
    @@ ("summary" :> PyStr(<<"S">>))
    @@ ("key_points" :> PyList(<<"k1", "k2">>))
    @@ ("timestamps" :> PyList(<<"{00:10}">>))

JsonDocs ==
    ("{full}" :> PyDict(FullNote))
    @@ ("{no-title}" :> PyDict([k \in {"summary", "key_points", "timestamps"} |-> FullNote[k]]))
    @@ ("{empty-kp}" :> PyDict([FullNote EXCEPT !["key_points"] = PyList(<<>>)]))
    @@ ("{blank}" :> PyDict([FullNote EXCEPT !["summary"] = PyStr(<<>>),
                                              !["key_points"] = PyList(<<>>),
                                              !["timestamps"] = PyList(<<>>)]))
    @@ ("{kp-str}" :> PyDict([FullNote EXCEPT !["key_points"] = PyStr(<<"k", "1">>)]))

\* the tokens that are one JSON value inside a list: the strings "k1", "k2",
\* the placeholder key point, and the timestamp objects
JsonItems == {"k1", "k2", "Key point extracted from video", "{00:10}", "{00:00}"}

\* the items of a JSON list text "[" item "," item ... "]"; ok is FALSE when the
\* text is not such a list
ListItems(text) ==
    LET n == Len(text)
    IN  IF n >= 2 /\ text[1] = "[" /\ text[n] = "]"
           /\ (n = 2 \/ (n % 2 = 1
                         /\ \A i \in 2..(n - 1) :
                               IF i % 2 = 0 THEN text[i] \in JsonItems ELSE text[i] = ","))
        THEN [ok |-> TRUE, items |-> [k \in 1..((n - 1) \div 2) |-> text[2 * k]]]
        ELSE [ok |-> FALSE, items |-> <<>>]

\* json.loads(text), for a text made of object tokens, lists of item tokens,
\* whitespace and characters that are no JSON: the text decodes when,
\* whitespace between the tokens aside, it is exactly one object token of
\* JsonDocs or one list of item tokens
JsonLoads(text) ==
    LET doc == SelectSeq(text, LAMBDA tk : tk \notin Whitespace)
    IN  IF Len(doc) = 1 /\ doc[1] \in DOMAIN JsonDocs
        THEN [ok |-> TRUE, value |-> JsonDocs[doc[1]]]
        ELSE IF ListItems(doc).ok
        THEN [ok |-> TRUE, value |-> PyList(ListItems(doc).items)]
        ELSE [ok |-> FALSE, value |-> PyNone]

\* json.dumps(x) of a list of items
JsonDumps(x) ==
    <<"[">> \o Join(<<",">>, [i \in 1..Len(x.v) |-> <<x.v[i]>>]) \o <<"]">>

\* the response text only trimmed
StripFences_TrimOnly(text) == Strip(text)

\* lines 268-277: strip, drop one leading and one trailing fence, strip
StripFences(text) ==
    LET t0 == Strip(text)
        t1 == IF StartsWith(t0, FenceJson) THEN SubSeq(t0, 8, Len(t0))
              ELSE IF StartsWith(t0, Fence) THEN SubSeq(t0, 4, Len(t0))
              ELSE t0
        t2 == IF EndsWith(t1, Fence) THEN SubSeq(t1, 1, Len(t1) - 3) ELSE t1
    IN  Strip(t2)

\* the fallback object keeping the whole response text as its summary
FallbackNote_WholeText(response_text, video_title, channel_name) ==
    PyDict(("video_title" :> video_title) @@ ("channel_name" :> channel_name)
           @@ ("summary" :> PyStr(response_text))
           @@ ("key_points" :> PyList(<<"Key point extracted from video">>))
           @@ ("timestamps" :> PyList(<<"{00:00}">>)))

\* lines 287-298: the object substituted when the response is not JSON
FallbackNote(response_text, video_title, channel_name) ==
    PyDict(("video_title" :> video_title) @@ ("channel_name" :> channel_name)
           @@ ("summary" :> PyStr(IF Len(response_text) > SummaryLimit
                                  THEN SubSeq(response_text, 1, SummaryLimit)
                                  ELSE response_text))
           @@ ("key_points" :> PyList(<<"Key point extracted from video">>))
           @@ ("timestamps" :> PyList(<<"{00:00}">>)))

\* lines 279-298: json.loads, or the fallback on JSONDecodeError
ParseResponse(response_text, video_title, channel_name) ==
    LET parsed == JsonLoads(response_text)
    IN  IF parsed.ok THEN parsed.value
        ELSE FallbackNote(response_text, video_title, channel_name)

\* lines 301-310: note_data.get(...) with defaults, lists coerced
StructureNote(note_data, video_title, channel_name) ==
    LET key_points_list == DictGet(note_data, "key_points", PyList(<<>>))
        timestamps_list == DictGet(note_data, "timestamps", PyList(<<>>))
    IN  PyDict(("video_title" :> DictGet(note_data, "video_title", video_title))
               @@ ("channel_name" :> DictGet(note_data, "channel_name", channel_name))
               @@ ("summary" :> DictGet(note_data, "summary", PyStr(<<>>)))
               @@ ("key_points" :> IF IsList(key_points_list) THEN key_points_list ELSE PyList(<<>>))
               @@ ("timestamps" :> IF IsList(timestamps_list) THEN timestamps_list ELSE PyList(<<>>)))

\* the text check without the trimming
TextMissing_OnlyFalsy(x) == ~Truthy(x)

\* not x or not str(x).strip()
TextMissing(x) == ~Truthy(x) \/ Strip(StrOf(x)) = <<>>

\* not x or not isinstance(x, list) or len(x) == 0
ListMissing(x) == ~Truthy(x) \/ ~IsList(x) \/ Len(x.v) = 0

FieldMissing(d, f) ==
    IF f \in {"key_points", "timestamps"} THEN ListMissing(d.v[f]) ELSE TextMissing(d.v[f])

\* the checks stopping at the first missing field
MissingFields_FirstOnly(res) ==
    LET all == SelectSeq(RequiredFields, LAMBDA f : FieldMissing(res, f))
    IN  IF all = <<>> THEN <<>> ELSE <<all[1]>>

\* lines 313-327: missing_fields, in the order the checks run
MissingFields(res) == SelectSeq(RequiredFields, LAMBDA f : FieldMissing(res, f))

\* lines 329-333
IncompleteNoteError(missing_fields) ==
    HttpError(500, <<"Failed to generate complete note. Missing required fields: ">>
                   \o Join(<<", ">>, [i \in 1..Len(missing_fields) |-> <<missing_fields[i]>>])
                   \o <<". Please try again or choose a different video.">>)

\* the generator without its except clause
WrapGenerateError_PassThrough(o) == o

\* lines 338-343: except Exception wraps whatever the body raised
WrapGenerateError(o) ==
    IF o.kind = "return" THEN o
    ELSE HttpError(500, <<"Failed to generate note with AI: ">> \o StrOfError(o))

\* lines 300-343: structure the parsed candidate, validate it, return or raise
StructureAndValidate(note_data, video_title, channel_name) ==
    WrapGenerateError(
        IF note_data.t # "dict" THEN Raised(AttributeErrorMsg(note_data, "get"))
        ELSE LET res == StructureNote(note_data, video_title, channel_name)
                 missing_fields == MissingFields(res)
             IN  IF missing_fields # <<>> THEN IncompleteNoteError(missing_fields)
                 ELSE Returned(res))

\* lines 108-343.  api is what gemini_client.models.generate_content did:
\* [ok |-> the call returned, text |-> response.text, msg |-> message if it raised]
GenerateNoteWithGemini(api, video_title, channel_name) ==
    IF ~api.ok THEN WrapGenerateError(Raised(api.msg))
    ELSE IF api.text.t # "str" THEN WrapGenerateError(Raised(AttributeErrorMsg(api.text, "strip")))
    ELSE StructureAndValidate(
             ParseResponse(StripFences(api.text.v), video_title, channel_name),
             video_title, channel_name)

-----------------------------------------------------------------------------
(* Caption parser: NoteService._extract_text_from_xml_transcript           *)
(* A markup text is a sequence of tokens: a start tag ("<text>" stands for *)
(* <text ...> with any attributes), an end tag, or one character of        *)
(* character data.                                                         *)

StartTags == {"<transcript>", "<text>"}

EndTags == {"</transcript>", "</text>"}

EndTagOf(start) == IF start = "<text>" THEN "</text>" ELSE "</transcript>"

MarkupChars == {"a", "b", " "}

MarkupTokens == StartTags \cup EndTags \cup MarkupChars

IsCharData(tk) == tk \notin StartTags /\ tk \notin EndTags

\* ET.fromstring(xml_content) succeeds: one root element, tags properly nested,
\* nothing but whitespace outside the root
RECURSIVE WellFormedFrom(_, _, _, _)
WellFormedFrom(toks, i, stack, rootDone) ==
    IF i > Len(toks) THEN stack = <<>> /\ rootDone
    ELSE LET tk == toks[i]
         IN  IF tk \in StartTags
             THEN ~(stack = <<>> /\ rootDone)
                  /\ WellFormedFrom(toks, i + 1, Append(stack, tk), rootDone)
             ELSE IF tk \in EndTags
             THEN stack # <<>>
                  /\ EndTagOf(stack[Len(stack)]) = tk
                  /\ WellFormedFrom(toks, i + 1, SubSeq(stack, 1, Len(stack) - 1),
                                    rootDone \/ Len(stack) = 1)
             ELSE (stack # <<>> \/ tk \in Whitespace)
                  /\ WellFormedFrom(toks, i + 1, stack, rootDone)

WellFormed(toks) == WellFormedFrom(toks, 1, <<>>, FALSE)

\* number of elements open just before token i
Depth(toks, i) ==
    Cardinality({j \in 1..(i - 1) : toks[j] \in StartTags})
    - Cardinality({j \in 1..(i - 1) : toks[j] \in EndTags})

\* the character data that directly follows token i, up to the next tag
RECURSIVE CharRun(_, _)
CharRun(toks, i) ==
    IF i + 1 <= Len(toks) /\ IsCharData(toks[i + 1])
    THEN <<toks[i + 1]>> \o CharRun(toks, i + 1)
    ELSE <<>>

\* root.findall('.//text'): the <text> elements below the root, in document order
FindAllText(toks) ==
    SelectSeq([i \in 1..Len(toks) |-> i],
              LAMBDA i : toks[i] = "<text>" /\ Depth(toks, i) >= 1)

\* lines 720-724: text_parts, the stripped .text of each element that has one
TextParts(toks) ==
    LET elems == FindAllText(toks)
        withText == SelectSeq(elems, LAMBDA i : CharRun(toks, i) # <<>>)
    IN  [k \in 1..Len(withText) |-> Strip(CharRun(toks, withText[k]))]

\* the pattern search finding nothing
RegexMatches_None(toks) == <<>>

\* re.findall(r'<text[^>]*>([^<]+)</text>', xml_content)
RegexMatches(toks) ==
    LET starts == SelectSeq([i \in 1..Len(toks) |-> i],
                            LAMBDA i : /\ toks[i] = "<text>"
                                       /\ CharRun(toks, i) # <<>>
                                       /\ i + Len(CharRun(toks, i)) + 1 <= Len(toks)
                                       /\ toks[i + Len(CharRun(toks, i)) + 1] = "</text>")
    IN  [k \in 1..Len(starts) |-> CharRun(toks, starts[k])]

\* lines 726-730 and 740-741: " ".join(parts), collapse whitespace, strip
JoinAndClean(parts) == Strip(CollapseWhitespace(Join(<<" ">>, parts)))

\* lines 715-749
ExtractTextFromXmlTranscript(xml_content) ==
    IF WellFormed(xml_content)
    THEN JoinAndClean(TextParts(xml_content))
    ELSE LET matches == RegexMatches(xml_content)
         IN  IF matches # <<>>
             THEN JoinAndClean([k \in 1..Len(matches) |-> Strip(matches[k])])
             ELSE xml_content

-----------------------------------------------------------------------------
(* Transcript acquirer: NoteService.get_video_metadata_from_youtube_video_url *)
(* and NoteService._get_subtitle_from_audio.  What the platform, the       *)
(* network and the speech-to-text service do is given by an environment    *)
(* record.                                                                 *)

\* the message of an exception a collaborator raised
Cause == <<"boom">>

\* the text of the URLs
UrlText == ("u1" :> <<"watch?v", "=", "a">>) @@ ("u2" :> <<"watch?v", "=", "b">>)

\* video_url.split("=")[-1]
RECURSIVE LastSegment(_)
LastSegment(text) ==
    IF \A i \in 1..Len(text) : text[i] # "="
    THEN text
    ELSE LastSegment(Tail(text))

\* line 768: the name of the normalized file
AudioFileName(video_url) == LastSegment(UrlText[video_url]) \o <<".wav">>

\* line 776: ys.default_filename, made by the platform library from the
\* video's title; the two videos have different titles
DefaultFilename(video_url) == <<"title of ">> \o LastSegment(UrlText[video_url]) \o <<".m4a">>

\* lines 801-805: the outer handler of _get_subtitle_from_audio
AudioFailure(cause) ==
    HttpError(500, <<"Failed to get subtitle from audio of YouTube video: ">> \o cause)

\* lines 796-799 inside 801-805: the inner handler's HTTPException, wrapped
\* again by the outer one
TranscribeFailure(cause) ==
    AudioFailure(StrOfError(HttpError(500, <<"Failed to convert audio to text: ">> \o cause)))

FileNotFound == <<"[Errno 2] No such file or directory">>

\* a call of a collaborator; track is the caption track fetched, or 0
Call(name, track) == [call |-> name, track |-> track]

\* the acquirer fetching the last caption track
FirstTrack_Last(captions) == Len(captions)

\* line 667: list(yt.captions.keys())[0]
FirstTrack(captions) == 1

\* lines 665-699: the collaborators the acquirer calls, in order
AcquirerCalls(env) ==
    <<Call("YouTube", 0)>>
    \o (IF ~env.yt_ok THEN <<>>
        ELSE IF Len(env.captions) > 0
        THEN <<Call("requests.get", FirstTrack(env.captions))>>
             \o (IF env.fetch_ok THEN <<Call("_extract_text_from_xml_transcript", 0)>> ELSE <<>>)
        ELSE <<Call("_get_subtitle_from_audio", 0)>>)

\* lines 665-679: the try block of the acquirer on the caption path.
\* env = [yt_ok, captions, fetch_ok, audio, meta_ok, title, channel_name];
\* captions holds the markup of each track
CaptionBody(env) ==
    IF ~env.yt_ok \/ ~env.fetch_ok THEN Raised(Cause)
    ELSE Returned(PyStr(ExtractTextFromXmlTranscript(env.captions[FirstTrack(env.captions)])))

\* what the platform reports of each video: yt.length, yt.thumbnail_url,
\* yt.views, yt.likes, yt.publish_date
VideoLength == PyInt(60)

VideoThumbnail == PyStr(<<"thumb">>)

VideoViews == PyInt(9)

VideoLikes == PyInt(1)

VideoPublishDate == PyDatetime(1)

\* lines 683-699: the handler of the try block, whose body ended with `body`,
\* and the read of the video's metadata after it
AcquirerOutcome(env, body) ==
    IF body.kind # "return"
    THEN HttpError(500, <<"Failed to download audio from YouTube video: ">>
                        \o StrOfError(body))
    ELSE IF ~env.meta_ok THEN Raised(Cause)
    ELSE Returned(PyDict(("title" :> env.title) @@ ("caption" :> body.value)
                         @@ ("channel_name" :> env.channel_name)
                         @@ ("duration_in_seconds" :> VideoLength)
                         @@ ("thumbnail_url" :> VideoThumbnail)
                         @@ ("views" :> VideoViews)
                         @@ ("likes" :> VideoLikes)
                         @@ ("publish_date" :> VideoPublishDate)))

-----------------------------------------------------------------------------
(* The note store and NoteService's operations                             *)

Users == {1, 2}

Urls == {"u1", "u2"}

Slots == {1, 2}

NoteIds == 1..(MaxId + 1)

NoOutcome == [kind |-> "none", status |-> 0, detail |-> <<>>, value |-> PyNone]

NoReq == [op |-> "none", user |-> 0, url |-> "", note_id |-> 0, update |-> PyNone,
          before |-> {}, held |-> PyNone]

NoAcqIn == [yt_ok |-> FALSE]

NoAcqOut == [outcome |-> NoOutcome, calls |-> <<>>]

NoLast == [op |-> "none", status |-> 0]

\* the arguments of a request to a notes route
NoArgs == [url |-> "", note_id |-> 0, update |-> PyNone, current_page |-> 0,
           page_size |-> PyNone, search |-> PyNone]

NoCaller == [op |-> "none", request |-> [cookie |-> PyNone, authorization |-> PyNone],
             served |-> FALSE, user |-> 0, args |-> NoArgs, entered |-> FALSE]

NoListIn == [rows |-> {}, user_id |-> 0, current_page |-> 0, page_size |-> PyNone,
             search |-> PyNone]

NoListOut == [notes |-> <<>>, total_notes |-> 0, total_pages |-> 0, current_page |-> 0,
              page_size |-> 0]

\* what a caller sees of an outcome: 200 for a normal return, else the status
StatusOf(o) == IF o.kind = "return" THEN 200 ELSE o.status

\* the existence query finding nothing
NotesFor_FindsNothing(user_id, url) == {}

\* the existence query matching the user's notes of other URLs
NotesFor_OtherUrl(user_id, url) == {n \in notes : n.user_id = user_id /\ n.youtube_url # url}

\* select(Note).where(Note.user_id == user_id, Note.youtube_url == url)
NotesFor(user_id, url) == {n \in notes : n.user_id = user_id /\ n.youtube_url = url}

\* _get_note_by_id without the ownership check
GetNoteByIdOutcome_NoOwnerCheck(note_id, user_id) ==
    IF {n \in notes : n.id = note_id} = {}
    THEN HttpError(404, <<"Note with ID ", "<note_id>", " not found">>)
    ELSE Returned(PyInt(note_id))

\* lines 52-80: session.get(Note, note_id), then the 404 and 403 checks
GetNoteByIdOutcome(note_id, user_id) ==
    LET found == {n \in notes : n.id = note_id}
    IN  IF found = {}
        THEN HttpError(404, <<"Note with ID ", "<note_id>", " not found">>)
        ELSE IF (CHOOSE n \in found : TRUE).user_id # user_id
        THEN HttpError(403, <<"You don't have permission to access this note">>)
        ELSE Returned(PyInt(note_id))

NoteWithId(note_id) == CHOOSE n \in notes : n.id = note_id

\* a second check that takes only str values for the text fields
CreateMissingFields_StrOnly(generated_data) ==
    SelectSeq(RequiredFields,
              LAMBDA f : IF f \in {"key_points", "timestamps"}
                         THEN ListMissing(DictGet(generated_data, f, PyList(<<>>)))
                         ELSE \/ DictGet(generated_data, f, PyNone).t # "str"
                              \/ TextMissing(DictGet(generated_data, f, PyNone)))

\* lines 445-462: the orchestrator's own required-field check
\* (generated_data.get(f) is None for an absent key)
CreateMissingFields(generated_data) ==
    SelectSeq(RequiredFields,
              LAMBDA f : IF f \in {"key_points", "timestamps"}
                         THEN ListMissing(DictGet(generated_data, f, PyList(<<>>)))
                         ELSE TextMissing(DictGet(generated_data, f, PyNone)))

\* lines 464-468
CannotCreateError(missing_fields) ==
    HttpError(500, <<"Cannot create note: Missing required fields (">>
                   \o Join(<<", ">>, [i \in 1..Len(missing_fields) |-> <<missing_fields[i]>>])
                   \o <<"). The AI was unable to generate complete note data. Please try again or choose a different video.">>)

\* lines 472-485: the row built from the generated data
NewNote(id, user_id, url, generated_data, video_data, created, updated) ==
    [id |-> id, user_id |-> user_id, youtube_url |-> url,
     video_title |-> generated_data.v["video_title"],
     channel_name |-> generated_data.v["channel_name"],
     summary |-> generated_data.v["summary"],
     key_points |-> IF Truthy(DictGet(generated_data, "key_points", PyNone))
                    THEN PyStr(JsonDumps(generated_data.v["key_points"])) ELSE PyNone,
     timestamps |-> IF Truthy(DictGet(generated_data, "timestamps", PyNone))
                    THEN PyStr(JsonDumps(generated_data.v["timestamps"])) ELSE PyNone,
     duration_in_seconds |-> DictGet(video_data, "duration_in_seconds", PyNone),
     thumbnail_url |-> DictGet(video_data, "thumbnail_url", PyNone),
     views |-> DictGet(video_data, "views", PyNone),
     likes |-> DictGet(video_data, "likes", PyNone),
     publish_date |-> DictGet(video_data, "publish_date", PyNone),
     created_at |-> created, updated_at |-> updated]

\* the loop run over every field, set in the request or not
UpdatedField_AllFields(note_value, update_data, key) ==
    IF key \notin DOMAIN update_data.v THEN PyNone
    ELSE IF key \in {"key_points", "timestamps"} /\ update_data.v[key] # PyNone
    THEN PyStr(JsonDumps(update_data.v[key]))
    ELSE update_data.v[key]

\* lines 612-618: one field of the note after the loop over update_data
UpdatedField(note_value, update_data, key) ==
    IF key \notin DOMAIN update_data.v THEN note_value
    ELSE IF key \in {"key_points", "timestamps"} /\ update_data.v[key] # PyNone
    THEN PyStr(JsonDumps(update_data.v[key]))
    ELSE update_data.v[key]

\* lines 612-621
ApplyUpdate(note, update_data, at) ==
    [note EXCEPT !.video_title = UpdatedField(@, update_data, "video_title"),
                 !.channel_name = UpdatedField(@, update_data, "channel_name"),
                 !.summary = UpdatedField(@, update_data, "summary"),
                 !.key_points = UpdatedField(@, update_data, "key_points"),
                 !.timestamps = UpdatedField(@, update_data, "timestamps"),
                 !.duration_in_seconds = UpdatedField(@, update_data, "duration_in_seconds"),
                 !.thumbnail_url = UpdatedField(@, update_data, "thumbnail_url"),
                 !.views = UpdatedField(@, update_data, "views"),
                 !.likes = UpdatedField(@, update_data, "likes"),
                 !.publish_date = UpdatedField(@, update_data, "publish_date"),
                 !.updated_at = at]

-----------------------------------------------------------------------------
(* get_notes and its pagination helpers (lines 350-390, 525-582).  A text  *)
(* is matched character by character: each token of a stored text or of a  *)
(* search term is one character.                                           *)

\* route.py line 106 and service.py line 528: page_size: int = 10
DefaultPageSize == 10

\* line 366: min(page_size, 100)
MaxPageSize == 100

Max2(a, b) == IF a >= b THEN a ELSE b

Min2(a, b) == IF a <= b THEN a ELSE b

\* str.lower() and SQL lower(), on the letters the texts are made of
LowerOf == ("T" :> "t") @@ ("C" :> "c") @@ ("S" :> "s") @@ ("V" :> "v")

Lower(text) ==
    [i \in 1..Len(text) |-> IF text[i] \in DOMAIN LowerOf THEN LowerOf[text[i]] ELSE text[i]]

\* text LIKE pattern: % stands for any run of characters, _ for any one
RECURSIVE Like(_, _)
Like(text, pattern) ==
    IF pattern = <<>> THEN text = <<>>
    ELSE IF Head(pattern) = "%"
    THEN Like(text, Tail(pattern)) \/ (text # <<>> /\ Like(Tail(text), pattern))
    ELSE /\ text # <<>>
         /\ Head(pattern) = "_" \/ Head(pattern) = Head(text)
         /\ Like(Tail(text), Tail(pattern))

\* line 548: f"%{search.strip().lower()}%"
SearchTerm(search) == <<"%">> \o Lower(Strip(search.v)) \o <<"%">>

\* lines 549-555: or_ of the three LIKE tests; a NULL column matches nothing
Matches(n, search_term) ==
    \E col \in {n.video_title, n.channel_name, n.summary} :
        col # PyNone /\ Like(Lower(col.v), search_term)

\* lines 547-555: the filter is applied for a search that is neither None nor ""
SearchFilter(rows, search) ==
    IF Truthy(search) THEN {n \in rows : Matches(n, SearchTerm(search))} ELSE rows

\* the clamp that lets every page size through
ValidatePaginationParams_NoClamp(current_page, page_size) ==
    [page |-> Max2(1, current_page), size |-> Max2(1, page_size)]

\* lines 365-367
ValidatePaginationParams(current_page, page_size) ==
    [page |-> Max2(1, current_page), size |-> Max2(1, Min2(page_size, MaxPageSize))]

\* the page count rounded down
CalculatePagination_RoundsDown(total_items, current_page, page_size) ==
    LET total_pages == Max2(1, total_items \div page_size)
        adjusted_page == Min2(current_page, total_pages)
        start_index == (adjusted_page - 1) * page_size
    IN  [total_pages |-> total_pages, adjusted_page |-> adjusted_page,
         start_index |-> start_index, end_index |-> start_index + page_size]

\* lines 386-390
CalculatePagination(total_items, current_page, page_size) ==
    LET total_pages == Max2(1, (total_items + page_size - 1) \div page_size)
        adjusted_page == Min2(current_page, total_pages)
        start_index == (adjusted_page - 1) * page_size
    IN  [total_pages |-> total_pages, adjusted_page |-> adjusted_page,
         start_index |-> start_index, end_index |-> start_index + page_size]

\* order_by(Note.created_at.desc()), for rows with distinct created_at
ByCreatedAtDesc(rows) ==
    LET newer == [n \in rows |-> Cardinality({m \in rows : m.created_at > n.created_at})]
    IN  [i \in 1..Cardinality(rows) |-> CHOOSE n \in rows : newer[n] = i - 1]

\* seq[start:end] for 0 <= start <= end
Slice(seq, start, end) ==
    IF start >= Len(seq) THEN <<>> ELSE SubSeq(seq, start + 1, Min2(end, Len(seq)))

\* get_notes with the search filter in place of the owner filter
GetNotes_SearchAllUsers(rows, user_id, current_page, page_size, search) ==
    LET all_notes == ByCreatedAtDesc(IF Truthy(search) THEN SearchFilter(rows, search)
                                     ELSE {n \in rows : n.user_id = user_id})
        validated == ValidatePaginationParams(current_page, page_size)
        total_notes == Len(all_notes)
        pages == CalculatePagination(total_notes, validated.page, validated.size)
    IN  [notes |-> Slice(all_notes, pages.start_index, pages.end_index),
         total_notes |-> total_notes,
         total_pages |-> pages.total_pages,
         current_page |-> pages.adjusted_page,
         page_size |-> validated.size]

\* lines 543-582: get_notes(user_id, current_page, page_size, search) on the
\* stored rows
GetNotes(rows, user_id, current_page, page_size, search) ==
    LET all_notes == ByCreatedAtDesc(SearchFilter({n \in rows : n.user_id = user_id}, search))
        validated == ValidatePaginationParams(current_page, page_size)
        total_notes == Len(all_notes)
        pages == CalculatePagination(total_notes, validated.page, validated.size)
    IN  [notes |-> Slice(all_notes, pages.start_index, pages.end_index),
         total_notes |-> total_notes,
         total_pages |-> pages.total_pages,
         current_page |-> pages.adjusted_page,
         page_size |-> validated.size]

-----------------------------------------------------------------------------
(* Inputs: what the collaborators may answer, and the update requests      *)

SampleMarkups ==
    { <<"<transcript>", "<text>", "a", "</text>", "<text>", "b", "</text>", "</transcript>">>,
      <<"<transcript>", "</transcript>">>,
      <<"<text>", "a", "</text>", "<text>", "b", "</text>">> }

OkAudio == [download_ok |-> TRUE, transcode_ok |-> TRUE, transcribe_ok |-> TRUE,
            transcript |-> <<"a">>]

AudioEnvs ==
    { OkAudio,
      [OkAudio EXCEPT !.transcript = <<" ">>],
      [OkAudio EXCEPT !.download_ok = FALSE],
      [OkAudio EXCEPT !.transcode_ok = FALSE],
      [OkAudio EXCEPT !.transcribe_ok = FALSE] }

Titles == {PyStr(<<"T">>), PyStr(<<>>)}

Channels == {PyStr(<<"C">>)}

OkEnv == [yt_ok |-> TRUE, fetch_ok |-> TRUE,
          captions |-> << <<"<transcript>", "<text>", "a", "</text>", "</transcript>">> >>,
          audio |-> OkAudio, meta_ok |-> TRUE,
          title |-> PyStr(<<"T">>), channel_name |-> PyStr(<<"C">>)]

\* the audio outcomes that leave no file in temp_audio_files
CleanAudioEnvs == {a \in AudioEnvs : a.transcode_ok /\ a.transcribe_ok}

\* the platform fails, the caption fetch fails, captions of each sample markup,
\* no captions and each audio outcome of `audio`; then the metadata read fails
\* or gives a title
AcquireEnvsWith(audio) ==
    { [OkEnv EXCEPT !.yt_ok = FALSE], [OkEnv EXCEPT !.fetch_ok = FALSE] }
    \cup { [OkEnv EXCEPT !.captions = <<m>>, !.meta_ok = mo, !.title = ti] :
             m \in SampleMarkups, mo \in BOOLEAN, ti \in Titles }
    \cup { [OkEnv EXCEPT !.captions = <<>>, !.audio = a, !.meta_ok = mo, !.title = ti] :
             a \in audio, mo \in BOOLEAN, ti \in Titles }

\* what the collaborators answer to the requests of Spec; the transcoder and
\* the transcriber failing, which leaves a file behind, is tried in SpecAcquire
AcquireEnvs == AcquireEnvsWith(CleanAudioEnvs)

SampleResponses ==
    { <<"{full}">>,
      FenceJson \o <<"\n", "{full}", "\n">> \o Fence,
      <<"{no-title}">>, <<"{empty-kp}">>, <<"{blank}">>, <<"{kp-str}">>,
      <<"[", "k1", "]">>,
      <<>> }

\* what generate_content did: raised, returned a response without text, or a text
ApiOutcomes ==
    { [ok |-> FALSE, text |-> PyNone, msg |-> Cause],
      [ok |-> TRUE, text |-> PyNone, msg |-> <<>>] }
    \cup { [ok |-> TRUE, text |-> PyStr(r), msg |-> <<>>] : r \in SampleResponses }

\* NoteUpdate.model_dump(exclude_unset=True) of the update requests tried
SampleUpdates ==
    { PyDict(<<>>),
      PyDict(("video_title" :> PyStr(<<>>)) @@ ("summary" :> PyStr(<<" ">>))
             @@ ("key_points" :> PyNone) @@ ("timestamps" :> PyList(<<>>))) }

\* update requests that set one field, and the fields that the first request
\* of SampleUpdates leaves out
FieldUpdates ==
    { PyDict("views" :> PyInt(5)),
      PyDict("key_points" :> PyList(<<"k2">>)),
      PyDict(("channel_name" :> PyStr(<<"D">>)) @@ ("duration_in_seconds" :> PyNone)
             @@ ("thumbnail_url" :> PyStr(<<"thumb2">>)) @@ ("likes" :> PyInt(0))
             @@ ("publish_date" :> PyDatetime(2))) }

-----------------------------------------------------------------------------
(* create_note, one action per stage (lines 396-503).  A stage that waits  *)
(* more than once on the database or on the scratch directory is one       *)
(* action per wait, so that the steps of other requests run in between.    *)

Quiescent == \A q \in Slots : pc[q] \in {"idle", "done"}

\* what a slot holds of a call: its arguments, the rows stored when it
\* started, and the row its session holds between two round trips
Request(op, user_id, url, note_id, update_data) ==
    [op |-> op, user |-> user_id, url |-> url, note_id |-> note_id,
     update |-> update_data, before |-> notes, held |-> PyNone]

\* a call enters a free slot
Begin(p, stage, request) ==
    /\ pc[p] \in {"idle", "done"}
    /\ pc' = [pc EXCEPT ![p] = stage]
    /\ req' = [req EXCEPT ![p] = request]
    /\ video' = [video EXCEPT ![p] = PyNone]
    /\ generated' = [generated EXCEPT ![p] = PyNone]
    /\ result' = [result EXCEPT ![p] = NoOutcome]
    /\ trace' = [trace EXCEPT ![p] = <<>>]
    /\ acqIn' = [acqIn EXCEPT ![p] = NoAcqIn]
    /\ acqOut' = [acqOut EXCEPT ![p] = NoAcqOut]
    /\ last' = NoLast

\* the call ends: the slot holds how it ended
Finish(p, outcome, stages) ==
    /\ pc' = [pc EXCEPT ![p] = "done"]
    /\ result' = [result EXCEPT ![p] = outcome]
    /\ trace' = [trace EXCEPT ![p] = @ \o stages]
    /\ video' = [video EXCEPT ![p] = PyNone]
    /\ generated' = [generated EXCEPT ![p] = PyNone]

\* the call moving on to the stage after the next one
Advance_SkipsStage(p, next, stages) ==
    /\ pc' = [pc EXCEPT ![p] = CASE next = "Acquire" -> "Generate"
                                 [] next = "Generate" -> "Validate"
                                 [] OTHER -> "Persist"]
    /\ trace' = [trace EXCEPT ![p] = @ \o stages]
    /\ UNCHANGED result

\* the call moves on to the next stage
Advance(p, next, stages) ==
    /\ pc' = [pc EXCEPT ![p] = next]
    /\ trace' = [trace EXCEPT ![p] = @ \o stages]
    /\ UNCHANGED result

\* a request arrives: create_note(user_id, NoteCreate(youtube_url = url)).  Once
\* MaxId ids or MaxClock clock readings are used up, only calls for a stored
\* (user, URL) are let in.
StartCreate(p, user_id, url) ==
    /\ \/ nextId <= MaxId /\ now <= MaxClock
       \/ \E n \in notes : n.user_id = user_id /\ n.youtube_url = url
    /\ Begin(p, "CheckExisting", Request("create", user_id, url, 0, PyNone))
    /\ UNCHANGED <<notes, nextId, now, users, nextUserId, files, xmlIn, xmlOut, genIn, genOut, listIn, listOut, deleted>>

\* the existence check stamping the note it found
CheckExisting_Touch(p) ==
    /\ pc[p] = "CheckExisting"
    /\ LET existing == NotesFor(req[p].user, req[p].url)
       IN  IF existing # {}
           THEN \E n \in existing :
                   /\ Finish(p, Returned(PyInt(n.id)), <<"CheckExisting", "ReturnExisting">>)
                   /\ notes' = (notes \ {n}) \cup {[n EXCEPT !.updated_at = now]}
           ELSE /\ Advance(p, "Acquire", <<"CheckExisting">>)
                /\ UNCHANGED <<video, generated, notes>>
    /\ UNCHANGED <<nextId, now, req, last, users, nextUserId, files, xmlIn, xmlOut, genIn, genOut, acqIn, acqOut, listIn, listOut, caller, deleted>>

\* lines 410-419: the existence check; it runs outside the try block, so an
\* exception of the session leaves create_note as it is
CheckExisting(p) ==
    /\ pc[p] = "CheckExisting"
    /\ \E db_ok \in BOOLEAN :
          IF ~db_ok THEN Finish(p, Raised(Cause), <<"CheckExisting">>)
          ELSE LET existing == NotesFor(req[p].user, req[p].url)
               IN  IF existing # {}
                   THEN \E n \in existing :
                           Finish(p, Returned(PyInt(n.id)), <<"CheckExisting", "ReturnExisting">>)
                   ELSE /\ Advance(p, "Acquire", <<"CheckExisting">>)
                        /\ UNCHANGED <<video, generated>>
    /\ notes' = notes
    /\ UNCHANGED <<nextId, now, req, last, users, nextUserId, files, xmlIn, xmlOut, genIn, genOut, acqIn, acqOut, listIn, listOut, caller, deleted>>

\* the transcript check without the trimming
SubtitleBlank_OnlyEmpty(subtitle) == ~Truthy(subtitle)

\* line 430: not subtitle or not subtitle.strip()
SubtitleBlank(subtitle) == ~Truthy(subtitle) \/ Strip(subtitle.v) = <<>>

\* lines 424-434 with 495-503: what create_note does with the acquirer's
\* outcome, the empty-transcript check included
AfterAcquire(p, got) ==
    LET subtitle == DictGet(got.value, "caption", PyStr(<<>>))
    IN  IF got.kind = "http"
        THEN Finish(p, got, <<"Acquire">>)
        ELSE IF got.kind = "raise"
        THEN Finish(p, HttpError(500, <<"Failed to create note: ">> \o StrOfError(got)),
                    <<"Acquire">>)
        ELSE IF SubtitleBlank(subtitle)
        THEN Finish(p, HttpError(404, <<"No captions/subtitles available for this video. Please choose a video with captions.">>),
                    <<"Acquire">>)
        ELSE /\ Advance(p, "Generate", <<"Acquire">>)
             /\ video' = [video EXCEPT ![p] = got.value]
             /\ UNCHANGED generated

\* the acquirer's try block has ended with `body` (lines 683-699): the
\* acquirer ends, and a create_note call goes on with what it got
EndAcquire(p, env, body) ==
    LET got == AcquirerOutcome(env, body)
    IN  /\ acqOut' = [acqOut EXCEPT ![p] = [outcome |-> got, calls |-> AcquirerCalls(env)]]
        /\ IF req[p].op = "acquire" THEN Finish(p, got, <<"Acquire">>)
           ELSE AfterAcquire(p, got)

\* line 424 with lines 663-681: the platform is asked for the video; with a
\* caption track the first one is fetched and parsed, which touches nothing
\* that another request can see, and the acquirer ends in this step; with
\* none, _get_subtitle_from_audio is entered
AcquireWith(p, env) ==
    /\ pc[p] = "Acquire"
    /\ acqIn' = [acqIn EXCEPT ![p] = env]
    /\ IF env.yt_ok /\ Len(env.captions) = 0
       THEN /\ pc' = [pc EXCEPT ![p] = "Download"]
            /\ acqOut' = [acqOut EXCEPT ![p] = [outcome |-> NoOutcome,
                                                calls |-> AcquirerCalls(env)]]
            /\ UNCHANGED <<result, trace, video, generated>>
       ELSE EndAcquire(p, env, CaptionBody(env))
    /\ UNCHANGED <<notes, nextId, now, req, last, users, nextUserId, files, xmlIn, xmlOut, genIn, genOut, listIn, listOut, caller, deleted>>

Acquire(p) == \E env \in AcquireEnvs : AcquireWith(p, env)

\* a step of the audio path goes on to the next one
AudioNext(p, next) ==
    /\ pc' = [pc EXCEPT ![p] = next]
    /\ UNCHANGED <<result, trace, video, generated, acqOut>>

\* lines 763-776: the stream is looked up and ys.download writes the
\* container into temp_audio_files
Download(p) ==
    /\ pc[p] = "Download"
    /\ IF acqIn[p].audio.download_ok
       THEN /\ files' = files \cup {DefaultFilename(req[p].url)}
            /\ AudioNext(p, "Transcode")
       ELSE /\ EndAcquire(p, acqIn[p], AudioFailure(Cause))
            /\ UNCHANGED files
    /\ UNCHANGED <<notes, nextId, now, req, last, users, nextUserId, xmlIn, xmlOut, genIn, genOut, acqIn, listIn, listOut, caller, deleted>>

\* line 778: AudioSegment.from_file reads the container into memory
Transcode(p) ==
    /\ pc[p] = "Transcode"
    /\ IF DefaultFilename(req[p].url) \notin files
       THEN EndAcquire(p, acqIn[p], AudioFailure(FileNotFound))
       ELSE IF ~acqIn[p].audio.transcode_ok
       THEN EndAcquire(p, acqIn[p], AudioFailure(Cause))
       ELSE AudioNext(p, "Export")
    /\ UNCHANGED <<notes, nextId, now, req, last, users, nextUserId, files, xmlIn, xmlOut, genIn, genOut, acqIn, listIn, listOut, caller, deleted>>

\* line 779: audio.export writes the normalized file, over a file of that
\* name if there is one
Export(p) ==
    /\ pc[p] = "Export"
    /\ files' = files \cup {AudioFileName(req[p].url)}
    /\ AudioNext(p, "RemoveContainer")
    /\ UNCHANGED <<notes, nextId, now, req, last, users, nextUserId, xmlIn, xmlOut, genIn, genOut, acqIn, listIn, listOut, caller, deleted>>

\* line 782: os.remove of the container
RemoveContainer(p) ==
    /\ pc[p] = "RemoveContainer"
    /\ IF DefaultFilename(req[p].url) \notin files
       THEN /\ EndAcquire(p, acqIn[p], AudioFailure(FileNotFound))
            /\ UNCHANGED files
       ELSE /\ files' = files \ {DefaultFilename(req[p].url)}
            /\ AudioNext(p, "Transcribe")
    /\ UNCHANGED <<notes, nextId, now, req, last, users, nextUserId, xmlIn, xmlOut, genIn, genOut, acqIn, listIn, listOut, caller, deleted>>

\* lines 785-793: the normalized file is opened and read, transcribe_file is
\* called
Transcribe(p) ==
    /\ pc[p] = "Transcribe"
    /\ IF AudioFileName(req[p].url) \notin files
       THEN EndAcquire(p, acqIn[p], TranscribeFailure(FileNotFound))
       ELSE IF ~acqIn[p].audio.transcribe_ok
       THEN EndAcquire(p, acqIn[p], TranscribeFailure(Cause))
       ELSE AudioNext(p, "RemoveNormalized")
    /\ UNCHANGED <<notes, nextId, now, req, last, users, nextUserId, files, xmlIn, xmlOut, genIn, genOut, acqIn, listIn, listOut, caller, deleted>>

\* lines 793-795: os.remove of the normalized file, return transcript
RemoveNormalized(p) ==
    /\ pc[p] = "RemoveNormalized"
    /\ IF AudioFileName(req[p].url) \notin files
       THEN /\ EndAcquire(p, acqIn[p], TranscribeFailure(FileNotFound))
            /\ UNCHANGED files
       ELSE /\ files' = files \ {AudioFileName(req[p].url)}
            /\ EndAcquire(p, acqIn[p], Returned(PyStr(acqIn[p].audio.transcript)))
    /\ UNCHANGED <<notes, nextId, now, req, last, users, nextUserId, xmlIn, xmlOut, genIn, genOut, acqIn, listIn, listOut, caller, deleted>>

\* the audio path of the slot's call, whichever step it is at
AudioPath(p) ==
    \/ Download(p)
    \/ Transcode(p)
    \/ Export(p)
    \/ RemoveContainer(p)
    \/ Transcribe(p)
    \/ RemoveNormalized(p)

\* lines 436-443 with 495-496: the generator call
GenerateWith(p, api) ==
    /\ pc[p] = "Generate"
    /\ LET got == GenerateNoteWithGemini(api, DictGet(video[p], "title", PyStr(<<>>)),
                                         DictGet(video[p], "channel_name", PyStr(<<>>)))
       IN  IF got.kind = "return"
           THEN /\ Advance(p, "Validate", <<"Generate">>)
                /\ generated' = [generated EXCEPT ![p] = got.value]
                /\ UNCHANGED video
           ELSE Finish(p, got, <<"Generate">>)
    /\ UNCHANGED <<notes, nextId, now, req, last, users, nextUserId, files, xmlIn, xmlOut, genIn, genOut, acqIn, acqOut, listIn, listOut, caller, deleted>>

Generate(p) == \E api \in ApiOutcomes : GenerateWith(p, api)

\* lines 445-485: the second required-field check; when it passes the row is
\* built, its created_at and updated_at each taking a reading of the clock
\* (model.py lines 126-133), one after the other.  The row has no id yet.
Validate(p) ==
    /\ pc[p] = "Validate"
    /\ LET missing_fields == CreateMissingFields(generated[p])
       IN  IF missing_fields # <<>>
           THEN /\ Finish(p, CannotCreateError(missing_fields), <<"Validate">>)
                /\ UNCHANGED <<req, now>>
           ELSE /\ req' = [req EXCEPT ![p].held = NewNote(0, req[p].user, req[p].url,
                                                          generated[p], video[p],
                                                          now, now + 1)]
                /\ now' = now + 2
                /\ Advance(p, "Persist", <<"Validate">>)
                /\ UNCHANGED <<video, generated>>
    /\ UNCHANGED <<notes, nextId, last, users, nextUserId, files, xmlIn, xmlOut, genIn, genOut, acqIn, acqOut, listIn, listOut, caller, deleted>>

\* lines 497-503: an exception inside the try block leaves as an HTTP 500
CreateFailure(cause) == HttpError(500, <<"Failed to create note: ">> \o cause)

\* the session cannot read back a row that is not stored any more
CouldNotRefresh == <<"Could not refresh instance">>

\* the insert giving way to a row another call committed for the same pair
Persist_IfAbsent(p) ==
    /\ pc[p] = "Persist"
    /\ IF NotesFor(req[p].user, req[p].url) = {}
       THEN LET db_note == [req[p].held EXCEPT !.id = nextId]
            IN  /\ notes' = notes \cup {db_note}
                /\ nextId' = nextId + 1
                /\ req' = [req EXCEPT ![p].held = db_note]
                /\ Advance(p, "Refresh", <<"Persist">>)
                /\ UNCHANGED <<video, generated>>
       ELSE /\ \E n \in NotesFor(req[p].user, req[p].url) :
                  Finish(p, Returned(PyInt(n.id)), <<"Persist">>)
            /\ req' = [req EXCEPT ![p].held = PyNone]
            /\ UNCHANGED <<notes, nextId>>
    /\ UNCHANGED <<now, last, users, nextUserId, files, xmlIn, xmlOut, genIn, genOut, acqIn, acqOut, listIn, listOut, caller, deleted>>

\* lines 488-489 with 497-503: session.add, session.commit.  The INSERT
\* stores the row as it was built and the sequence gives it its id.
Persist(p) ==
    /\ pc[p] = "Persist"
    /\ \E commit_ok \in BOOLEAN :
          IF commit_ok
          THEN LET db_note == [req[p].held EXCEPT !.id = nextId]
               IN  /\ notes' = notes \cup {db_note}
                   /\ nextId' = nextId + 1
                   /\ req' = [req EXCEPT ![p].held = db_note]
                   /\ Advance(p, "Refresh", <<"Persist">>)
                   /\ UNCHANGED <<video, generated>>
          ELSE /\ Finish(p, CreateFailure(Cause), <<"Persist">>)
               /\ req' = [req EXCEPT ![p].held = PyNone]
               /\ UNCHANGED <<notes, nextId>>
    /\ UNCHANGED <<now, last, users, nextUserId, files, xmlIn, xmlOut, genIn, genOut, acqIn, acqOut, listIn, listOut, caller, deleted>>

\* lines 490-493 with 497-503: session.refresh reads the committed row back;
\* when it raises, the call ends with a 500 and the row stays stored
Refresh(p) ==
    /\ pc[p] = "Refresh"
    /\ \E refresh_ok \in BOOLEAN :
          IF ~refresh_ok THEN Finish(p, CreateFailure(Cause), <<>>)
          ELSE IF \A n \in notes : n.id # req[p].held.id
          THEN Finish(p, CreateFailure(CouldNotRefresh), <<>>)
          ELSE Finish(p, Returned(PyInt(req[p].held.id)), <<>>)
    /\ req' = [req EXCEPT ![p].held = PyNone]
    /\ UNCHANGED <<notes, nextId, now, last, users, nextUserId, files, xmlIn, xmlOut, genIn, genOut, acqIn, acqOut, listIn, listOut, caller, deleted>>

\* a direct call of get_video_metadata_from_youtube_video_url(url)
StartAcquire(p, url) ==
    /\ Begin(p, "Acquire", Request("acquire", 0, url, 0, PyNone))
    /\ UNCHANGED <<notes, nextId, now, users, nextUserId, files, xmlIn, xmlOut, genIn, genOut, listIn, listOut, deleted>>

-----------------------------------------------------------------------------
(* get_note_by_id, update_note, delete_note (lines 509-523, 588-656).  The *)
(* read of _get_note_by_id is one round trip to the database, the commit   *)
(* another, the refresh a third: one action each.                          *)

\* the slot is free again
Release(p) ==
    /\ pc' = [pc EXCEPT ![p] = "idle"]
    /\ req' = [req EXCEPT ![p] = NoReq]
    /\ result' = [result EXCEPT ![p] = NoOutcome]
    /\ video' = [video EXCEPT ![p] = PyNone]
    /\ generated' = [generated EXCEPT ![p] = PyNone]
    /\ trace' = [trace EXCEPT ![p] = <<>>]
    /\ acqIn' = [acqIn EXCEPT ![p] = NoAcqIn]
    /\ acqOut' = [acqOut EXCEPT ![p] = NoAcqOut]

\* a get, update or delete call ends: `last` holds the operation and the
\* status, and the slot is free again
FinishCall(p, outcome) ==
    /\ last' = [op |-> req[p].op, status |-> StatusOf(outcome)]
    /\ Release(p)

\* a get, update or delete call ends in the step that it starts with
EndAtOnce(p, op, outcome) ==
    /\ pc[p] \in {"idle", "done"}
    /\ last' = [op |-> op, status |-> StatusOf(outcome)]
    /\ Release(p)

\* lines 52-80 with the session raising or not: session.get, then the 404
\* and 403 checks
ReadNote(get_ok, note_id, user_id) ==
    IF get_ok THEN GetNoteByIdOutcome(note_id, user_id) ELSE Raised(Cause)

\* lines 509-523
GetNote(p, note_id, user_id) ==
    /\ \E get_ok \in BOOLEAN :
          EndAtOnce(p, "get", ReadNote(get_ok, note_id, user_id))
    /\ UNCHANGED <<notes, nextId, now, users, nextUserId, files, xmlIn, xmlOut, genIn, genOut, listIn, listOut, deleted>>

\* lines 607-621: the row is read and checked; the session's copy of it takes
\* the fields of the request and a reading of the clock
UpdateNote(p, note_id, user_id, update_data) ==
    /\ \E get_ok \in BOOLEAN :
          LET got == ReadNote(get_ok, note_id, user_id)
              request == Request("update", user_id, "", note_id, update_data)
          IN  IF got.kind = "return"
              THEN /\ now <= MaxClock
                   /\ Begin(p, "UpdateCommit",
                            [request EXCEPT !.held = ApplyUpdate(NoteWithId(note_id),
                                                                 update_data, now)])
                   /\ now' = now + 1
              ELSE /\ EndAtOnce(p, "update", got)
                   /\ UNCHANGED now
    /\ UNCHANGED <<notes, nextId, users, nextUserId, files, xmlIn, xmlOut, genIn, genOut, listIn, listOut, deleted>>

\* the row of the slot's note_id as the call read it
Loaded(p) == CHOOSE n \in req[p].before : n.id = req[p].note_id

\* the rows of the slot's note_id that are stored now
Stored(p) == {n \in notes : n.id = req[p].note_id}

\* the UPDATE that the flush emits sets the columns whose value in the
\* session's copy differs from the value read
WriteChanged(row, loaded, held) ==
    [c \in DOMAIN row |-> IF held[c] # loaded[c] THEN held[c] ELSE row[c]]

\* the UPDATE of the flush matched no row
StaleData == <<"UPDATE statement on table 'notes' expected to update 1 row(s); 0 were matched.">>

\* lines 624-625: session.add, session.commit.  No handler is around it: an
\* exception of the session leaves update_note as it is.
UpdateCommit(p) ==
    /\ pc[p] = "UpdateCommit"
    /\ \E commit_ok \in BOOLEAN :
          IF ~commit_ok THEN FinishCall(p, Raised(Cause)) /\ UNCHANGED notes
          ELSE IF Stored(p) = {} THEN FinishCall(p, Raised(StaleData)) /\ UNCHANGED notes
          ELSE /\ notes' = (notes \ Stored(p))
                           \cup {WriteChanged(n, Loaded(p), req[p].held) : n \in Stored(p)}
               /\ pc' = [pc EXCEPT ![p] = "UpdateRefresh"]
               /\ UNCHANGED <<req, result, last, video, generated, trace, acqIn, acqOut>>
    /\ UNCHANGED <<nextId, now, users, nextUserId, files, xmlIn, xmlOut, genIn, genOut, listIn, listOut, caller, deleted>>

\* lines 626-629: session.refresh, return note
UpdateRefresh(p) ==
    /\ pc[p] = "UpdateRefresh"
    /\ \E refresh_ok \in BOOLEAN :
          IF ~refresh_ok THEN FinishCall(p, Raised(Cause))
          ELSE IF Stored(p) = {} THEN FinishCall(p, Raised(CouldNotRefresh))
          ELSE FinishCall(p, Returned(PyInt(req[p].note_id)))
    /\ UNCHANGED <<notes, nextId, now, users, nextUserId, files, xmlIn, xmlOut, genIn, genOut, listIn, listOut, caller, deleted>>

\* what the history keeps of a removed row
Removed(n) == [id |-> n.id, user_id |-> n.user_id, youtube_url |-> n.youtube_url]

\* line 649: the row is read and checked
DeleteNote(p, note_id, user_id) ==
    /\ \E get_ok \in BOOLEAN :
          LET got == ReadNote(get_ok, note_id, user_id)
              request == Request("delete", user_id, "", note_id, PyNone)
          IN  IF got.kind = "return"
              THEN Begin(p, "DeleteCommit", [request EXCEPT !.held = NoteWithId(note_id)])
              ELSE EndAtOnce(p, "delete", got)
    /\ UNCHANGED <<notes, nextId, now, users, nextUserId, files, xmlIn, xmlOut, genIn, genOut, listIn, listOut, deleted>>

\* line 656: the dictionary delete_note returns
DeletedMessage == PyDict("message" :> PyStr(<<"Note with ID ", "<note_id>", " deleted successfully">>))

\* the commit that answers without removing the row
DeleteCommit_KeepsRow(p) ==
    /\ pc[p] = "DeleteCommit"
    /\ \E commit_ok \in BOOLEAN :
          IF ~commit_ok THEN FinishCall(p, Raised(Cause)) /\ UNCHANGED deleted
          ELSE /\ deleted' = deleted \cup {Removed(n) : n \in Stored(p)}
               /\ FinishCall(p, Returned(DeletedMessage))
    /\ UNCHANGED <<notes, nextId, now, users, nextUserId, files, xmlIn, xmlOut, genIn, genOut, listIn, listOut, caller>>

\* lines 652-656: session.delete, session.commit.  The DELETE of the flush
\* removes the row if it is still stored; a DELETE that matches no row is
\* not an error of the session.
DeleteCommit(p) ==
    /\ pc[p] = "DeleteCommit"
    /\ \E commit_ok \in BOOLEAN :
          IF ~commit_ok THEN FinishCall(p, Raised(Cause)) /\ UNCHANGED <<notes, deleted>>
          ELSE /\ notes' = notes \ Stored(p)
               /\ deleted' = deleted \cup {Removed(n) : n \in Stored(p)}
               /\ FinishCall(p, Returned(DeletedMessage))
    /\ UNCHANGED <<nextId, now, users, nextUserId, files, xmlIn, xmlOut, genIn, genOut, listIn, listOut, caller>>

\* lines 525-582 as a call of the service: the result is kept in listOut
ListNotes(user_id, current_page, page_size, search) ==
    /\ pc[1] \in {"idle", "done"}
    /\ last' = [op |-> "list", status |-> 200]
    /\ listIn' = [rows |-> notes, user_id |-> user_id, current_page |-> current_page,
                  page_size |-> page_size, search |-> search]
    /\ listOut' = GetNotes(notes, user_id, current_page,
                           IF page_size = PyNone THEN DefaultPageSize ELSE page_size.v,
                           search)
    /\ Release(1)
    /\ UNCHANGED <<notes, nextId, now, users, nextUserId, files, xmlIn, xmlOut, genIn, genOut, deleted>>

-----------------------------------------------------------------------------
(* The user service (user/service.py, user/model.py, user/utils.py).  An   *)
(* email or a password is a sequence of characters.                        *)

\* utils.py 9-32: bcrypt.hashpw; the salt is left out
HashPassword(password) == <<"$2b$">> \o password

\* utils.py 35-62: bcrypt.checkpw
VerifyPassword(plain_password, hashed_password) ==
    hashed_password = HashPassword(plain_password)

\* a row of table "users" (model.py 40-59)
UserRow(id, email, password, is_active) ==
    [id |-> id, email |-> email, hashed_password |-> HashPassword(password),
     is_active |-> is_active]

\* model.py 33-37 and 78-90: UserCreate after validation, the email lowercased
UserCreate(email, password) == [email |-> Lower(email), password |-> password]

\* model.py 126-155: UserUpdate.model_dump(exclude_unset=True) after
\* validation: a set email is None or lowercased
UserUpdate(fields) ==
    PyDict([k \in DOMAIN fields |->
              IF k = "email" /\ fields[k] # PyNone THEN PyStr(Lower(fields[k].v))
              ELSE fields[k]])

\* the check counting the active users alone
CheckEmailExists_ActiveOnly(table, email, exclude_user_id) ==
    LET existing_user == {u \in table : /\ u.email = Lower(email)
                                        /\ u.is_active
                                        /\ Truthy(exclude_user_id) => u.id # exclude_user_id.v}
    IN  IF existing_user # {} THEN HttpError(400, <<"Email already registered">>)
        ELSE Returned(PyNone)

\* service.py 76-98
CheckEmailExists(table, email, exclude_user_id) ==
    LET existing_user == {u \in table : /\ u.email = Lower(email)
                                        /\ Truthy(exclude_user_id) => u.id # exclude_user_id.v}
    IN  IF existing_user # {} THEN HttpError(400, <<"Email already registered">>)
        ELSE Returned(PyNone)

\* service.py 38-57: session.get(User, user_id) or 404
GetUserById(table, user_id) ==
    IF \E u \in table : u.id = user_id
    THEN Returned(PyInt(user_id))
    ELSE HttpError(404, <<"User with ID ", "<user_id>", " not found">>)

UserWithId(table, user_id) == CHOOSE u \in table : u.id = user_id

\* the login that does not look at is_active
AuthenticateUser_SkipsActive(table, email, password) ==
    LET found == {u \in table : u.email = Lower(email)}
    IN  IF found = {} \/ ~VerifyPassword(password, (CHOOSE u \in found : TRUE).hashed_password)
        THEN HttpError(401, <<"Invalid email or password">>)
        ELSE Returned(PyInt((CHOOSE u \in found : TRUE).id))

\* service.py 59-70 and 366-401
AuthenticateUser(table, email, password) ==
    LET found == {u \in table : u.email = Lower(email)}
        user == CHOOSE u \in found : TRUE
    IN  IF found = {}
        THEN HttpError(401, <<"Invalid email or password">>)
        ELSE IF ~VerifyPassword(password, user.hashed_password)
        THEN HttpError(401, <<"Invalid email or password">>)
        ELSE IF ~user.is_active
        THEN HttpError(403, <<"User account is inactive">>)
        ELSE Returned(PyInt(user.id))

\* what a caller sees of how a call of the user service ended: 200 for a
\* return, the status of an HTTPException, 500 for any other exception
UserStatusOf(outcome) ==
    IF outcome.kind = "return" THEN 200
    ELSE IF outcome.kind = "http" THEN outcome.status
    ELSE 500

\* what a slot holds of a call of the user service: its arguments, the row
\* of the user as the call read it, and the row its session holds between
\* two round trips
UserRequest(op, user_id, user_data) ==
    [op |-> op, user |-> user_id, url |-> "", note_id |-> 0, update |-> user_data,
     before |-> {u \in users : u.id = user_id}, held |-> PyNone]

\* a call of the user service ends: `last` holds the operation and the
\* status, and the slot is free again
FinishUserCall(p, outcome) ==
    /\ last' = [op |-> req[p].op, status |-> UserStatusOf(outcome)]
    /\ Release(p)

\* a call of the user service ends in the step that it starts with
EndUserAtOnce(p, op, outcome) ==
    /\ pc[p] \in {"idle", "done"}
    /\ last' = [op |-> op, status |-> UserStatusOf(outcome)]
    /\ Release(p)

\* the row of the slot's user as the call read it
LoadedUser(p) == CHOOSE u \in req[p].before : u.id = req[p].user

\* the rows of the slot's user that are stored now
StoredUser(p) == {u \in users : u.id = req[p].user}

\* model.py 19-23: column email is unique; a stored row of another id has
\* the email
EmailTaken(email, user_id) == \E u \in users : u.email = email /\ u.id # user_id

\* the flush raised sqlalchemy.exc.IntegrityError for the named constraint
IntegrityError(constraint) == <<"IntegrityError: ", constraint>>

\* the UPDATE of the flush matched no row
StaleUserData == <<"UPDATE statement on table 'users' expected to update 1 row(s); 0 were matched.">>

\* the UPDATE that the flush emits sets the columns whose value in the
\* session's copy differs from the value read
WriteChangedUser(row, loaded, held) ==
    [row EXCEPT !.email = IF held.email # loaded.email THEN held.email ELSE @,
                !.is_active = IF held.is_active # loaded.is_active
                              THEN held.is_active ELSE @]

\* the session's copy is written to the stored row and the call goes on to
\* its refresh
WriteUser(p) ==
    /\ users' = (users \ StoredUser(p))
                 \cup {WriteChangedUser(u, LoadedUser(p), req[p].held) : u \in StoredUser(p)}
    /\ pc' = [pc EXCEPT ![p] = "UserRefresh"]
    /\ UNCHANGED <<req, result, last, video, generated, trace, acqIn, acqOut>>

\* service.py 163-175: the email is looked up (lines 76-98); when it is free
\* the password is hashed and the row is built.  Once MaxUsers ids are used
\* up, only calls for a stored email are let in.
CreateUserCall(p, email, password) ==
    LET user_data == UserCreate(email, password)
        checked == CheckEmailExists(users, user_data.email, PyNone)
        db_user == UserRow(0, user_data.email, user_data.password, TRUE)
    IN  /\ IF checked.kind # "return" THEN EndUserAtOnce(p, "create_user", checked)
           ELSE /\ nextUserId <= MaxUsers
                /\ Begin(p, "UserCommit",
                         [UserRequest("create_user", 0, user_data) EXCEPT !.held = db_user])
    /\ UNCHANGED <<notes, nextId, now, users, nextUserId,files, xmlIn, xmlOut, genIn, genOut,
                   listIn, listOut, caller, deleted>>

\* service.py 178-179: session.add, session.commit.  The INSERT takes the next
\* id of the sequence; when a stored row has the email, the unique index
\* refuses it, and the exception leaves create_user as it is.  A refused
\* INSERT has used up an id of the sequence or not, as the database has it.
CreateUserCommit(p) ==
    /\ pc[p] = "UserCommit"
    /\ req[p].op = "create_user"
    /\ IF EmailTaken(req[p].held.email, 0)
       THEN /\ FinishUserCall(p, Raised(IntegrityError("users.email")))
            /\ nextUserId' \in {nextUserId, nextUserId + 1}
            /\ UNCHANGED users
       ELSE /\ users' = users \cup {[req[p].held EXCEPT !.id = nextUserId]}
            /\ nextUserId' = nextUserId + 1
            /\ req' = [req EXCEPT ![p].user = nextUserId, ![p].held.id = nextUserId]
            /\ pc' = [pc EXCEPT ![p] = "UserRefresh"]
            /\ UNCHANGED <<result, last, video, generated, trace, acqIn, acqOut>>
    /\ UNCHANGED <<notes, nextId, now, files, xmlIn, xmlOut, genIn, genOut,
                   listIn, listOut, caller, deleted>>

\* service.py 180-183, 306-309, 423-426, 444-447: session.refresh reads the
\* row back, the call returns it
UserRefresh(p) ==
    /\ pc[p] = "UserRefresh"
    /\ IF StoredUser(p) = {} THEN FinishUserCall(p, Raised(CouldNotRefresh))
       ELSE FinishUserCall(p, Returned(PyInt(req[p].user)))
    /\ UNCHANGED <<notes, nextId, now, users, nextUserId,files, xmlIn, xmlOut, genIn, genOut,
                   listIn, listOut, caller, deleted>>

\* service.py 296-298: the fields of the request are assigned to the
\* session's copy of the row
AssignFields(user, user_data) ==
    IF Truthy(DictGet(user_data, "email", PyNone))
    THEN [user EXCEPT !.email = user_data.v["email"].v]
    ELSE user

\* service.py 289-298: the row is read (lines 38-57); with a new email in the
\* request the email is looked up next, else the fields are assigned
UpdateUserCall(p, user_id, fields) ==
    LET user_data == UserUpdate(fields)
        got == GetUserById(users, user_id)
        user == UserWithId(users, user_id)
        email == DictGet(user_data, "email", PyNone)
        request == [UserRequest("update_user", user_id, user_data) EXCEPT !.held = user]
    IN  /\ IF got.kind # "return" THEN EndUserAtOnce(p, "update_user", got)
           ELSE IF Truthy(email) /\ email.v # user.email
           THEN Begin(p, "UserCheck", request)
           ELSE Begin(p, "UserCommit",
                      [request EXCEPT !.held = AssignFields(user, user_data)])
    /\ UNCHANGED <<notes, nextId, now, users, nextUserId,files, xmlIn, xmlOut, genIn, genOut,
                   listIn, listOut, caller, deleted>>

\* service.py 292-298: the email of the request is looked up (lines 76-98);
\* when no other user has it the fields are assigned
UpdateUserCheck(p) ==
    /\ pc[p] = "UserCheck"
    /\ LET checked == CheckEmailExists(users, req[p].update.v["email"].v, PyInt(req[p].user))
       IN  IF checked.kind # "return" THEN FinishUserCall(p, checked)
           ELSE /\ req' = [req EXCEPT ![p].held = AssignFields(@, req[p].update)]
                /\ pc' = [pc EXCEPT ![p] = "UserCommit"]
                /\ UNCHANGED <<result, last, video, generated, trace, acqIn, acqOut>>
    /\ UNCHANGED <<notes, nextId, now, users, nextUserId,files, xmlIn, xmlOut, genIn, genOut,
                   listIn, listOut, caller, deleted>>

\* service.py 301-305: updated_at takes a reading of the clock, session.add,
\* session.commit.  The UPDATE finds the row gone, or sets an email of None or
\* an email that another stored row has and is refused by the column, or
\* writes what was changed.  No handler is around it.
UpdateUserCommit(p) ==
    /\ pc[p] = "UserCommit"
    /\ req[p].op = "update_user"
    /\ LET nulled == /\ "email" \in DOMAIN req[p].update.v
                     /\ req[p].update.v["email"] = PyNone
           changed == req[p].held.email # LoadedUser(p).email
       IN  IF StoredUser(p) = {}
           THEN FinishUserCall(p, Raised(StaleUserData)) /\ UNCHANGED users
           ELSE IF nulled \/ (changed /\ EmailTaken(req[p].held.email, req[p].user))
           THEN FinishUserCall(p, Raised(IntegrityError("users.email"))) /\ UNCHANGED users
           ELSE WriteUser(p)
    /\ UNCHANGED <<notes, nextId, now, nextUserId,files, xmlIn, xmlOut, genIn, genOut,
                   listIn, listOut, caller, deleted>>

\* the row is read (lines 38-57) and is_active is set on the session's copy
\* of it, with a reading of the clock for updated_at
SetActive(p, op, user_id, is_active) ==
    LET got == GetUserById(users, user_id)
        user == UserWithId(users, user_id)
    IN  /\ IF got.kind # "return" THEN EndUserAtOnce(p, op, got)
           ELSE Begin(p, "UserCommit",
                      [UserRequest(op, user_id, PyNone)
                          EXCEPT !.held = [user EXCEPT !.is_active = is_active]])
    /\ UNCHANGED <<notes, nextId, now, users, nextUserId,files, xmlIn, xmlOut, genIn, genOut,
                   listIn, listOut, caller, deleted>>

\* service.py 328-332
DeleteUserCall(p, user_id) == SetActive(p, "delete_user", user_id, FALSE)

\* service.py 438-440
DeactivateUserCall(p, user_id) == SetActive(p, "deactivate_user", user_id, FALSE)

\* service.py 417-419
ActivateUserCall(p, user_id) == SetActive(p, "activate_user", user_id, TRUE)

\* line 338: the dictionary delete_user returns
UserDeletedMessage ==
    PyDict("message" :> PyStr(<<"User with ID ", "<user_id>", " deleted successfully">>))

\* service.py 334-338: session.add, session.commit, and the message is
\* returned without a refresh
DeleteUserCommit(p) ==
    /\ pc[p] = "UserCommit"
    /\ req[p].op = "delete_user"
    /\ IF StoredUser(p) = {}
       THEN FinishUserCall(p, Raised(StaleUserData)) /\ UNCHANGED users
       ELSE /\ users' = (users \ StoredUser(p))
                         \cup {WriteChangedUser(u, LoadedUser(p), req[p].held) :
                                  u \in StoredUser(p)}
            /\ FinishUserCall(p, Returned(UserDeletedMessage))
    /\ UNCHANGED <<notes, nextId, now, nextUserId,files, xmlIn, xmlOut, genIn, genOut,
                   listIn, listOut, caller, deleted>>

\* service.py 421-422 and 442-443: session.add, session.commit
SetActiveCommit(p) ==
    /\ pc[p] = "UserCommit"
    /\ req[p].op \in {"activate_user", "deactivate_user"}
    /\ IF StoredUser(p) = {}
       THEN FinishUserCall(p, Raised(StaleUserData)) /\ UNCHANGED users
       ELSE WriteUser(p)
    /\ UNCHANGED <<notes, nextId, now, nextUserId,files, xmlIn, xmlOut, genIn, genOut,
                   listIn, listOut, caller, deleted>>

\* service.py 353: the row is read
PermanentDeleteUserCall(p, user_id) ==
    LET got == GetUserById(users, user_id)
    IN  /\ IF got.kind # "return" THEN EndUserAtOnce(p, "permanent_delete_user", got)
           ELSE Begin(p, "UserCommit",
                      [UserRequest("permanent_delete_user", user_id, PyNone)
                          EXCEPT !.held = UserWithId(users, user_id)])
    /\ UNCHANGED <<notes, nextId, now, users, nextUserId,files, xmlIn, xmlOut, genIn, genOut,
                   listIn, listOut, caller, deleted>>

\* line 360: the dictionary permanent_delete_user returns
UserPermanentlyDeletedMessage ==
    PyDict("message" :> PyStr(<<"User with ID ", "<user_id>", " permanently deleted">>))

\* service.py 356-360: session.delete, session.commit.  A DELETE that matches
\* no row is not an error of the session; the row of a user who has notes is
\* kept by the foreign key of notes.user_id where the database enforces it.
PermanentDeleteUserCommit(p) ==
    /\ pc[p] = "UserCommit"
    /\ req[p].op = "permanent_delete_user"
    /\ \E enforced \in BOOLEAN :
          IF enforced /\ StoredUser(p) # {} /\ \E n \in notes : n.user_id = req[p].user
          THEN /\ FinishUserCall(p, Raised(IntegrityError("notes.user_id")))
               /\ UNCHANGED users
          ELSE /\ users' = users \ StoredUser(p)
               /\ FinishUserCall(p, Returned(UserPermanentlyDeletedMessage))
    /\ UNCHANGED <<notes, nextId, now, nextUserId,files, xmlIn, xmlOut, genIn, genOut,
                   listIn, listOut, caller, deleted>>

\* service.py 366-401: the one read of authenticate_user and its checks
AuthenticateUserCall(email, password) ==
    /\ last' = [op |-> "authenticate_user",
                status |-> UserStatusOf(AuthenticateUser(users, email, password))]
    /\ UNCHANGED <<notes, nextId, now, pc, req, video, generated, result, trace,
                   users, nextUserId, files, xmlIn, xmlOut, genIn, genOut, acqIn, acqOut,
                   listIn, listOut, caller, deleted>>

-----------------------------------------------------------------------------
(* The authentication dependency of the notes routes (core/security.py)    *)

\* the users table of the notes specifications: user 3 is deactivated, no
\* other id is stored
UserTable ==
    { UserRow(1, <<"t", "@", "x">>, <<"p", "1">>, TRUE),
      UserRow(2, <<"c", "@", "x">>, <<"p", "2">>, TRUE),
      UserRow(3, <<"s", "@", "x">>, <<"p", "3">>, FALSE) }

\* a token as jwt.decode sees it: what is wrong with it, and its sub claim
\* (None: the payload has no sub)
Jwt(fault, sub) == [t |-> "jwt", fault |-> fault, sub |-> sub]

\* int() of the one-character strings used as sub claims
DigitValue == ("1" :> 1) @@ ("2" :> 2) @@ ("3" :> 3) @@ ("4" :> 4)

\* jwt.decode accepting every token
VerifyToken_AcceptsAll(token) ==
    Returned(PyDict(IF token.sub = PyNone THEN <<>> ELSE ("sub" :> token.sub)))

\* lines 92-128
VerifyToken(token) ==
    IF token.fault = "expired"
    THEN HttpError(401, <<"Token has expired">>)
    ELSE IF token.fault = "claims"
    THEN HttpError(401, <<"Invalid token claims">>)
    ELSE IF token.fault = "signature"
    THEN HttpError(401, <<"Could not validate credentials: ">> \o Cause)
    ELSE Returned(PyDict(IF token.sub = PyNone THEN <<>> ELSE ("sub" :> token.sub)))

\* lines 137-157: the cookie first, then an "Authorization: Bearer ..." header
GetTokenFromRequest(request) ==
    IF request.cookie # PyNone /\ request.cookie # PyStr(<<>>)
    THEN request.cookie
    ELSE IF request.authorization # PyNone /\ request.authorization.scheme = "Bearer"
    THEN request.authorization.token
    ELSE PyNone

\* lines 161-199
GetCurrentUserId(request) ==
    LET token == GetTokenFromRequest(request)
    IN  IF token = PyNone \/ token = PyStr(<<>>)
        THEN HttpError(401, <<"Not authenticated">>)
        ELSE LET payload == VerifyToken(token)
                 user_id_str == DictGet(payload.value, "sub", PyNone)
             IN  IF payload.kind # "return" THEN payload
                 ELSE IF user_id_str = PyNone
                 THEN HttpError(401, <<"Could not validate credentials">>)
                 ELSE IF ~(Len(user_id_str.v) = 1 /\ user_id_str.v[1] \in DOMAIN DigitValue)
                 THEN HttpError(401, <<"Invalid user ID in token">>)
                 ELSE Returned(PyInt(DigitValue[user_id_str.v[1]]))

\* lines 202-236: session.get(User, user_id), then the 404 and 403 checks
GetCurrentUser(request) ==
    LET user_id == GetCurrentUserId(request)
        found == {u \in users : u.id = user_id.value.v}
    IN  IF user_id.kind # "return" THEN user_id
        ELSE IF found = {}
        THEN HttpError(404, <<"User not found">>)
        ELSE IF ~(CHOOSE u \in found : TRUE).is_active
        THEN HttpError(403, <<"User account is inactive">>)
        ELSE user_id

\* lines 239-262: the second check of is_active
GetCurrentActiveUser(request) ==
    LET current_user == GetCurrentUser(request)
    IN  IF current_user.kind # "return" THEN current_user
        ELSE IF ~(CHOOSE u \in users : u.id = current_user.value.v).is_active
        THEN HttpError(403, <<"Inactive user">>)
        ELSE current_user

Cookie(token) == [cookie |-> token, authorization |-> PyNone]

Header(scheme, token) ==
    [cookie |-> PyNone, authorization |-> [scheme |-> scheme, token |-> token]]

\* the requests tried against every route
SampleRequests ==
    { Cookie(PyNone),
      Header("Bearer", PyStr(<<>>)),
      Header("Basic", Jwt("none", PyStr(<<"1">>))),
      Header("Bearer", Jwt("signature", PyStr(<<"1">>))),
      Cookie(Jwt("claims", PyStr(<<"2">>))),
      Cookie(Jwt("none", PyNone)),
      Header("Bearer", Jwt("none", PyStr(<<"x">>))),
      Cookie(Jwt("none", PyStr(<<"4">>))),
      Header("Bearer", Jwt("none", PyStr(<<"3">>))),
      Cookie(Jwt("none", PyStr(<<"1">>))),
      [cookie |-> Jwt("expired", PyStr(<<"1">>)),
       authorization |-> [scheme |-> "Bearer", token |-> Jwt("none", PyStr(<<"1">>))]],
      [cookie |-> PyStr(<<>>),
       authorization |-> [scheme |-> "Bearer", token |-> Jwt("none", PyStr(<<"2">>))]] }

-----------------------------------------------------------------------------
(* The notes routes (notes/route.py).  FastAPI resolves                    *)
(* Depends(get_current_active_user), which reads the user's row, and then  *)
(* calls the endpoint with the user it got: the endpoint's body runs as a  *)
(* later step and calls the service with current_user.id.  A request is    *)
(* taken up once the previous one is answered.                             *)

CreateArgs(url) == [NoArgs EXCEPT !.url = url]

ListArgs(current_page, page_size, search) ==
    [NoArgs EXCEPT !.current_page = current_page, !.page_size = page_size,
                   !.search = search]

NoteArgs(note_id) == [NoArgs EXCEPT !.note_id = note_id]

UpdateArgs(note_id, update_data) == [NoArgs EXCEPT !.note_id = note_id, !.update = update_data]

\* the service takes the call of the route in: ids and clock readings are
\* left for the row it may store or stamp
InBounds(op, user_id, args) ==
    /\ op = "create" =>
          \/ nextId <= MaxId /\ now <= MaxClock
          \/ \E n \in notes : n.user_id = user_id /\ n.youtube_url = args.url
    /\ op = "update" =>
          \/ now <= MaxClock
          \/ GetNoteByIdOutcome(args.note_id, user_id).kind # "return"

\* a request to the route `op` arrives and its dependencies are resolved
\* (security.py 161-262): when get_current_active_user raises, the request
\* is answered with that status and the endpoint is not called
SolveDependencies(op, request, args) ==
    /\ caller = NoCaller
    /\ LET auth == GetCurrentActiveUser(request)
       IN  IF auth.kind # "return"
           THEN /\ caller' = [op |-> op, request |-> request, served |-> FALSE,
                              user |-> 0, args |-> args, entered |-> FALSE]
                /\ last' = [op |-> op, status |-> auth.status]
           ELSE /\ InBounds(op, auth.value.v, args)
                /\ caller' = [op |-> op, request |-> request, served |-> TRUE,
                              user |-> auth.value.v, args |-> args, entered |-> FALSE]
                /\ last' = last
    /\ UNCHANGED <<notes, nextId, now, pc, req, video, generated, result, trace,
                   users, nextUserId, files, xmlIn, xmlOut, genIn, genOut, acqIn, acqOut,
                   listIn, listOut, deleted>>

\* the endpoint of the route is called with the user the dependency returned
Endpoint(op) ==
    /\ caller.op = op
    /\ caller.served
    /\ ~caller.entered
    /\ caller' = [caller EXCEPT !.entered = TRUE]

\* lines 87-91
CreateNoteRoute == Endpoint("create") /\ StartCreate(1, caller.user, caller.args.url)

\* lines 121-128
GetNotesRoute ==
    /\ Endpoint("list")
    /\ ListNotes(caller.user, caller.args.current_page, caller.args.page_size,
                 caller.args.search)

\* lines 150-151
GetNoteRoute == Endpoint("get") /\ GetNote(1, caller.args.note_id, caller.user)

\* lines 184-189
UpdateNoteRoute ==
    /\ Endpoint("update")
    /\ UpdateNote(1, caller.args.note_id, caller.user, caller.args.update)

\* lines 216-217
DeleteNoteRoute == Endpoint("delete") /\ DeleteNote(1, caller.args.note_id, caller.user)

\* the response is sent and the request is over
Respond ==
    /\ caller # NoCaller
    /\ caller.served => caller.entered
    /\ pc[1] \in {"idle", "done"}
    /\ caller' = NoCaller
    /\ last' = NoLast
    /\ listIn' = NoListIn
    /\ listOut' = NoListOut
    /\ Release(1)
    /\ UNCHANGED <<notes, nextId, now, users, nextUserId, files, xmlIn, xmlOut, genIn, genOut, deleted>>

-----------------------------------------------------------------------------
(* The service with one request at a time                                  *)

NotRun == <<"(not run)">>

NoGenIn == [note_data |-> PyNone, video_title |-> PyNone, channel_name |-> PyNone]

Init ==
    /\ notes = {}
    /\ nextId = 1
    /\ now = 0
    /\ pc = [q \in Slots |-> "idle"]
    /\ req = [q \in Slots |-> NoReq]
    /\ video = [q \in Slots |-> PyNone]
    /\ generated = [q \in Slots |-> PyNone]
    /\ result = [q \in Slots |-> NoOutcome]
    /\ trace = [q \in Slots |-> <<>>]
    /\ last = NoLast
    /\ xmlIn = <<>>
    /\ xmlOut = NotRun
    /\ genIn = NoGenIn
    /\ genOut = NoOutcome
    /\ acqIn = [q \in Slots |-> NoAcqIn]
    /\ acqOut = [q \in Slots |-> NoAcqOut]
    /\ listIn = NoListIn
    /\ listOut = NoListOut
    /\ caller = NoCaller
    /\ deleted = {}
    /\ users = UserTable
    /\ nextUserId = Cardinality(UserTable) + 1
    /\ files = {}

CreateNoteCall ==
    \E u \in Users, x \in Urls : Quiescent /\ StartCreate(1, u, x) /\ UNCHANGED caller

GetNoteCall ==
    \E id \in NoteIds, u \in Users : Quiescent /\ GetNote(1, id, u) /\ UNCHANGED caller

UpdateNoteCall ==
    \E id \in NoteIds, u \in Users, d \in SampleUpdates :
        Quiescent /\ UpdateNote(1, id, u, d) /\ UNCHANGED caller

DeleteNoteCall ==
    \E id \in NoteIds, u \in Users : Quiescent /\ DeleteNote(1, id, u) /\ UNCHANGED caller

Next ==
    \/ CreateNoteCall
    \/ CheckExisting(1)
    \/ Acquire(1)
    \/ AudioPath(1)
    \/ Generate(1)
    \/ Validate(1)
    \/ Persist(1)
    \/ Refresh(1)
    \/ GetNoteCall
    \/ UpdateNoteCall
    \/ UpdateCommit(1)
    \/ UpdateRefresh(1)
    \/ DeleteNoteCall
    \/ DeleteCommit(1)

Spec == Init /\ [][Next]_vars

-----------------------------------------------------------------------------
(* The notes routes with one request at a time; the platform, the          *)
(* transcriber and the generator answer well                               *)

\* generate_content returns a complete note
OkApi == [ok |-> TRUE, text |-> PyStr(<<"{full}">>), msg |-> <<>>]

\* every route with every sample request; lists of pages 1 and 2 with the
\* default page size and with size 1; updates that set a field
NextApi ==
    \/ \E r \in SampleRequests, x \in Urls : SolveDependencies("create", r, CreateArgs(x))
    \/ CreateNoteRoute
    \/ CheckExisting(1)
    \/ AcquireWith(1, OkEnv)
    \/ GenerateWith(1, OkApi)
    \/ Validate(1)
    \/ Persist(1)
    \/ Refresh(1)
    \/ UpdateCommit(1)
    \/ UpdateRefresh(1)
    \/ DeleteCommit(1)
    \/ \E r \in SampleRequests, pg \in {1, 2}, sz \in {PyNone, PyInt(1)},
          q \in {PyNone, PyStr(<<"t">>)} : SolveDependencies("list", r, ListArgs(pg, sz, q))
    \/ GetNotesRoute
    \/ \E r \in SampleRequests, id \in NoteIds : SolveDependencies("get", r, NoteArgs(id))
    \/ GetNoteRoute
    \/ \E r \in SampleRequests, id \in NoteIds,
          d \in {u \in SampleUpdates : DOMAIN u.v # {}} :
             SolveDependencies("update", r, UpdateArgs(id, d))
    \/ UpdateNoteRoute
    \/ \E r \in SampleRequests, id \in NoteIds : SolveDependencies("delete", r, NoteArgs(id))
    \/ DeleteNoteRoute
    \/ Respond

SpecApi == Init /\ [][NextApi]_vars

-----------------------------------------------------------------------------
(* Two create_note calls at a time, their stages interleaved in every      *)
(* order; the platform, the transcriber and the generator answer well      *)

NextRace ==
    \E p \in Slots :
        \/ \E u \in Users, x \in Urls : StartCreate(p, u, x) /\ UNCHANGED caller
        \/ CheckExisting(p)
        \/ AcquireWith(p, OkEnv)
        \/ GenerateWith(p, OkApi)
        \/ Validate(p)
        \/ Persist(p)
        \/ Refresh(p)

SpecRace == Init /\ [][NextRace]_vars

-----------------------------------------------------------------------------
(* get_note_by_id, update_note and delete_note calls two at a time, their  *)
(* round trips to the database interleaved in every order, next to the     *)
(* create_note calls of one user for one URL, whose collaborators answer   *)
(* well                                                                    *)

NextOverlap ==
    \/ StartCreate(1, 1, "u1") /\ UNCHANGED caller
    \/ CheckExisting(1)
    \/ AcquireWith(1, OkEnv)
    \/ GenerateWith(1, OkApi)
    \/ Validate(1)
    \/ Persist(1)
    \/ Refresh(1)
    \/ \E p \in Slots :
          \/ \E id \in NoteIds, u \in Users : GetNote(p, id, u) /\ UNCHANGED caller
          \/ \E id \in NoteIds, u \in Users, d \in {r \in SampleUpdates : DOMAIN r.v # {}} :
                UpdateNote(p, id, u, d) /\ UNCHANGED caller
          \/ UpdateCommit(p)
          \/ UpdateRefresh(p)
          \/ \E id \in NoteIds, u \in Users : DeleteNote(p, id, u) /\ UNCHANGED caller
          \/ DeleteCommit(p)

SpecOverlap == Init /\ [][NextOverlap]_vars

\* create_note, update_note and delete_note, one call at a time, the
\* collaborators answering well, with every update request of SampleUpdates
\* and FieldUpdates
NextUpdate ==
    \/ CreateNoteCall
    \/ CheckExisting(1)
    \/ AcquireWith(1, OkEnv)
    \/ GenerateWith(1, OkApi)
    \/ Validate(1)
    \/ Persist(1)
    \/ Refresh(1)
    \/ \E id \in NoteIds, u \in Users, d \in SampleUpdates \cup FieldUpdates :
          Quiescent /\ UpdateNote(1, id, u, d) /\ UNCHANGED caller
    \/ UpdateCommit(1)
    \/ UpdateRefresh(1)
    \/ DeleteNoteCall
    \/ DeleteCommit(1)

SpecUpdate == Init /\ [][NextUpdate]_vars

-----------------------------------------------------------------------------
(* The caption parser alone, on every markup up to MaxMarkupLen tokens     *)

Markups == UNION {[1..n -> MarkupTokens] : n \in 0..MaxMarkupLen} \cup SampleMarkups

InitXml ==
    /\ notes = {}
    /\ nextId = 1
    /\ now = 0
    /\ pc = [q \in Slots |-> "idle"]
    /\ req = [q \in Slots |-> NoReq]
    /\ video = [q \in Slots |-> PyNone]
    /\ generated = [q \in Slots |-> PyNone]
    /\ result = [q \in Slots |-> NoOutcome]
    /\ trace = [q \in Slots |-> <<>>]
    /\ last = NoLast
    /\ xmlIn \in Markups
    /\ xmlOut = NotRun
    /\ genIn = NoGenIn
    /\ genOut = NoOutcome
    /\ acqIn = [q \in Slots |-> NoAcqIn]
    /\ acqOut = [q \in Slots |-> NoAcqOut]
    /\ listIn = NoListIn
    /\ listOut = NoListOut
    /\ caller = NoCaller
    /\ deleted = {}
    /\ users = UserTable
    /\ nextUserId = Cardinality(UserTable) + 1
    /\ files = {}

ExtractText ==
    /\ xmlOut = NotRun
    /\ xmlOut' = ExtractTextFromXmlTranscript(xmlIn)
    /\ UNCHANGED <<notes, nextId, now, pc, req, video, generated, result, trace, last,
                   users, nextUserId, files, xmlIn, genIn, genOut, acqIn, acqOut, listIn, listOut, caller, deleted>>

NextXml == ExtractText

SpecXml == InitXml /\ [][NextXml]_vars

-----------------------------------------------------------------------------
(* The generator's structure and validation steps alone, on every parsed   *)
(* candidate built from the field values below                             *)

Absent == [t |-> "absent"]

\* the values json.loads can give a text field: null, strings, numbers,
\* booleans, lists and objects
TextChoices ==
    { Absent, PyNone, PyStr(<<>>), PyStr(<<" ">>), PyStr(<<"V">>), PyInt(0), PyInt(7),
      PyFloat(0), PyBool(FALSE), PyBool(TRUE), PyList(<<>>), PyDict(<<>>) }

ListChoices == {Absent, PyNone, PyList(<<>>), PyList(<<"k1">>), PyStr(<<"k">>)}

TextFields == {"video_title", "channel_name", "summary"}

ListFields == {"key_points", "timestamps"}

\* the dict that holds the chosen value of every field not chosen Absent
CandidateOf(texts, lists) ==
    LET all == texts @@ lists
    IN  PyDict([k \in {f \in DOMAIN all : all[f] # Absent} |-> all[k]])

Candidates ==
    { CandidateOf(texts, lists) : texts \in [TextFields -> TextChoices],
                                  lists \in [ListFields -> ListChoices] }
    \cup { PyList(<<"k1">>), PyStr(<<"V">>), PyInt(7), PyNone }

InitGen ==
    /\ notes = {}
    /\ nextId = 1
    /\ now = 0
    /\ pc = [q \in Slots |-> "idle"]
    /\ req = [q \in Slots |-> NoReq]
    /\ video = [q \in Slots |-> PyNone]
    /\ generated = [q \in Slots |-> PyNone]
    /\ result = [q \in Slots |-> NoOutcome]
    /\ trace = [q \in Slots |-> <<>>]
    /\ last = NoLast
    /\ xmlIn = <<>>
    /\ xmlOut = NotRun
    /\ genIn \in [note_data : Candidates, video_title : Titles, channel_name : Channels]
    /\ genOut = NoOutcome
    /\ acqIn = [q \in Slots |-> NoAcqIn]
    /\ acqOut = [q \in Slots |-> NoAcqOut]
    /\ listIn = NoListIn
    /\ listOut = NoListOut
    /\ caller = NoCaller
    /\ deleted = {}
    /\ users = UserTable
    /\ nextUserId = Cardinality(UserTable) + 1
    /\ files = {}

StructureStep ==
    /\ genOut = NoOutcome
    /\ genOut' = StructureAndValidate(genIn.note_data, genIn.video_title, genIn.channel_name)
    /\ UNCHANGED <<notes, nextId, now, pc, req, video, generated, result, trace, last,
                   users, nextUserId, files, xmlIn, xmlOut, genIn, acqIn, acqOut, listIn, listOut, caller, deleted>>

NextGen == StructureStep

SpecGen == InitGen /\ [][NextGen]_vars

-----------------------------------------------------------------------------
(* The generator's fence stripping and parse step alone, on every response *)
(* text of up to MaxResponseLen tokens and on two long texts               *)

\* object tokens, characters that are no JSON, and whitespace
ResponseTokens == {"{full}", "{empty-kp}", "{kp-str}", "x", "y", " ", "\n"}

\* texts of SummaryLimit and of SummaryLimit + 1 characters
LongResponses == {[i \in 1..n |-> "x"] : n \in {SummaryLimit, SummaryLimit + 1}}

\* the last set: a body with no, one or two opening and closing fence markers
\* around it, with and without line breaks next to the markers
ResponseTexts ==
    UNION {[1..n -> ResponseTokens] : n \in 0..MaxResponseLen}
    \cup SampleResponses \cup LongResponses
    \cup { w1 \o lead \o w2 \o body \o w2 \o trail \o w1 :
             w1 \in {<<>>, <<" ">>}, w2 \in {<<>>, <<"\n">>},
             lead \in {<<>>, Fence, FenceJson, Fence \o Fence, FenceJson \o FenceJson},
             trail \in {<<>>, Fence, Fence \o Fence},
             body \in {<<>>, <<"x">>, <<"{full}">>, <<"{kp-str}">>, <<"[", "k1", "]">>} }

InitParse ==
    /\ notes = {}
    /\ nextId = 1
    /\ now = 0
    /\ pc = [q \in Slots |-> "idle"]
    /\ req = [q \in Slots |-> NoReq]
    /\ video = [q \in Slots |-> PyNone]
    /\ generated = [q \in Slots |-> PyNone]
    /\ result = [q \in Slots |-> NoOutcome]
    /\ trace = [q \in Slots |-> <<>>]
    /\ last = NoLast
    /\ xmlIn = <<>>
    /\ xmlOut = NotRun
    /\ genIn \in [response_text : ResponseTexts, video_title : Titles, channel_name : Channels]
    /\ genOut = NoOutcome
    /\ acqIn = [q \in Slots |-> NoAcqIn]
    /\ acqOut = [q \in Slots |-> NoAcqOut]
    /\ listIn = NoListIn
    /\ listOut = NoListOut
    /\ caller = NoCaller
    /\ deleted = {}
    /\ users = UserTable
    /\ nextUserId = Cardinality(UserTable) + 1
    /\ files = {}

\* lines 268-298: genOut holds note_data, the candidate handed to the structure step
ParseStep ==
    /\ genOut = NoOutcome
    /\ genOut' = Returned(ParseResponse(StripFences(genIn.response_text),
                                        genIn.video_title, genIn.channel_name))
    /\ UNCHANGED <<notes, nextId, now, pc, req, video, generated, result, trace, last,
                   users, nextUserId, files, xmlIn, xmlOut, genIn, acqIn, acqOut, listIn, listOut, caller, deleted>>

NextParse == ParseStep

SpecParse == InitParse /\ [][NextParse]_vars

-----------------------------------------------------------------------------
(* The transcript acquirer alone, on every answer of the platform: up to   *)
(* MaxTracks caption tracks, each stage of the audio path failing or not   *)

CaptionLists == UNION {[1..n -> SampleMarkups] : n \in 0..MaxTracks}

AllAudioEnvs == AudioEnvs \cup {[OkAudio EXCEPT !.transcript = <<>>]}

AllAcquireEnvs ==
    [yt_ok : BOOLEAN, fetch_ok : BOOLEAN, captions : CaptionLists, audio : AllAudioEnvs,
     meta_ok : BOOLEAN, title : Titles, channel_name : Channels]

\* a direct call of the acquirer for some URL
AcquireCall == \E x \in Urls : StartAcquire(1, x) /\ UNCHANGED caller

\* lines 663-681 with whatever the platform and the network answer
AcquireStep == \E env \in AllAcquireEnvs : AcquireWith(1, env)

NextAcquire ==
    \/ AcquireCall
    \/ AcquireStep
    \/ AudioPath(1)

SpecAcquire == Init /\ [][NextAcquire]_vars

-----------------------------------------------------------------------------
(* get_notes alone: on every table of up to MaxRows rows and on one table  *)
(* of more than MaxPageSize rows, for page sizes around the limits         *)

\* a row of the table, as far as get_notes looks at it; ids and creation
\* times grow together
\* the texts of the stored rows: a full note, a note whose summary holds a
\* percent sign, and a note whose texts an update emptied
RowTexts ==
    <<[video_title |-> PyStr(<<"T">>), channel_name |-> PyStr(<<"C">>),
       summary |-> PyStr(<<"S">>)],
      [video_title |-> PyStr(<<"V">>), channel_name |-> PyStr(<<"C">>),
       summary |-> PyStr(<<"a", "%", "b">>)],
      [video_title |-> PyStr(<<>>), channel_name |-> PyStr(<<>>),
       summary |-> PyStr(<<" ">>)]>>

ListRow(id, user_id) ==
    [id |-> id, user_id |-> user_id, created_at |-> id,
     video_title |-> RowTexts[(id % 3) + 1].video_title,
     channel_name |-> RowTexts[(id % 3) + 1].channel_name,
     summary |-> RowTexts[(id % 3) + 1].summary]

\* None: the caller gave no search term
Searches ==
    { PyNone, PyStr(<<>>), PyStr(<<" ">>), PyStr(<<"t">>), PyStr(<<" ", "C">>),
      PyStr(<<"%">>), PyStr(<<"_">>), PyStr(<<"z">>) }

\* owner 0: the row was deleted
SmallTables ==
    { {ListRow(id, owners[id]) : id \in {i \in 1..MaxRows : owners[i] # 0}} :
        owners \in [1..MaxRows -> Users \cup {0}] }

BigTable == {ListRow(id, 1) : id \in 1..(MaxPageSize + 1)}

\* None: the caller gave no page_size
PageSizes ==
    {PyNone} \cup
    {PyInt(k) : k \in (-1..(MaxRows + 1)) \cup {MaxPageSize - 1, MaxPageSize,
                                                MaxPageSize + 1, MaxPageSize * MaxPageSize}}

Pages == -1..(MaxRows + 1)

InitList ==
    /\ notes = {}
    /\ nextId = 1
    /\ now = 0
    /\ pc = [q \in Slots |-> "idle"]
    /\ req = [q \in Slots |-> NoReq]
    /\ video = [q \in Slots |-> PyNone]
    /\ generated = [q \in Slots |-> PyNone]
    /\ result = [q \in Slots |-> NoOutcome]
    /\ trace = [q \in Slots |-> <<>>]
    /\ last = NoLast
    /\ xmlIn = <<>>
    /\ xmlOut = NotRun
    /\ genIn = NoGenIn
    /\ genOut = NoOutcome
    /\ acqIn = [q \in Slots |-> NoAcqIn]
    /\ acqOut = [q \in Slots |-> NoAcqOut]
    /\ listIn \in [rows : SmallTables \cup {BigTable}, user_id : Users,
                   current_page : Pages, page_size : PageSizes, search : Searches]
    /\ listOut = NoListOut
    /\ caller = NoCaller
    /\ deleted = {}
    /\ users = UserTable
    /\ nextUserId = Cardinality(UserTable) + 1
    /\ files = {}

\* lines 525-582; an omitted page_size takes the default of the signature
ListStep ==
    /\ listOut = NoListOut
    /\ listOut' = GetNotes(listIn.rows, listIn.user_id, listIn.current_page,
                           IF listIn.page_size = PyNone THEN DefaultPageSize
                           ELSE listIn.page_size.v,
                           listIn.search)
    /\ UNCHANGED <<notes, nextId, now, pc, req, video, generated, result, trace, last,
                   users, nextUserId, files, xmlIn, xmlOut, genIn, genOut, acqIn, acqOut, listIn, caller, deleted>>

NextList == ListStep

SpecList == InitList /\ [][NextList]_vars

-----------------------------------------------------------------------------
(* Properties                                                              *)

\* the stages a slot's call has run
Ran(p, stage) == stage \in Range(trace[p])

Ids(rows) == {n.id : n \in rows}

\* the rows that were stored for the call's (user, URL) when the call started
ExistedBefore(p) ==
    {n \in req[p].before : n.user_id = req[p].user /\ n.youtube_url = req[p].url}

\* C1: when a note for (user, URL) is already stored as create_note starts, the
\* call (unless the session's own query raised) returns that note's id, runs
\* neither the acquirer nor the generator, and the store holds the same rows
\* as before.
C1_ExistingNoteReturned ==
    \A p \in Slots :
        (pc[p] = "done" /\ req[p].op = "create" /\ ExistedBefore(p) # {}) =>
            /\ ~Ran(p, "Acquire")
            /\ ~Ran(p, "Generate")
            /\ Ids(notes) = Ids(req[p].before)
            /\ result[p].kind # "raise" =>
                   (result[p].kind = "return"
                    /\ result[p].value \in {PyInt(n.id) : n \in ExistedBefore(p)})

C1_Witness ==
    \E p \in Slots :
        /\ pc[p] = "done"
        /\ ExistedBefore(p) # {}
        /\ result[p].kind = "return"
        /\ Ran(p, "ReturnExisting")

\* C3: with calls running one at a time, the store never holds two notes with
\* the same (user_id, youtube_url).
C3_OneNotePerUserAndUrl ==
    \A n1, n2 \in notes :
        (n1.user_id = n2.user_id /\ n1.youtube_url = n2.youtube_url) => n1 = n2

C3_Witness ==
    \E p \in Slots :
        /\ pc[p] = "done"
        /\ Ran(p, "ReturnExisting")
        /\ Cardinality(notes) = 2
        /\ \E n1, n2 \in notes : n1.user_id = n2.user_id /\ n1.youtube_url # n2.youtube_url

\* C4: get_note_by_id, update_note and delete_note answer 404 when no note has
\* the id and 403 when the note belongs to another user (unless the session's
\* read itself raised), and in both cases the call ends there and the store
\* is left as it was, whatever other call is under way.
C4_NotFoundAndForbidden ==
    [][\A p \in Slots, id \in NoteIds, u \in Users :
         (GetNote(p, id, u) \/ DeleteNote(p, id, u)
          \/ \E d \in SampleUpdates : UpdateNote(p, id, u, d)) =>
            /\ (\A n \in notes : n.id # id) =>
                   (last'.status \in {404, 0} /\ pc'[p] = "idle" /\ notes' = notes)
            /\ (\E n \in notes : n.id = id /\ n.user_id # u) =>
                   (last'.status \in {403, 0} /\ pc'[p] = "idle" /\ notes' = notes)]_vars

\* a delete of another user's note was answered 403 while an update of the
\* note by its owner was between its read and its commit
C4_Witness ==
    /\ last = [op |-> "delete", status |-> 403]
    /\ notes # {}
    /\ \E q \in Slots : pc[q] = "UpdateCommit"

\* C8: a create_note call that finds an existing note leaves every stored row,
\* the found one with its updated_at included, exactly as it was.
C8_ExistingNoteUntouched ==
    \A p \in Slots :
        (pc[p] = "done" /\ Ran(p, "ReturnExisting")) => notes = req[p].before

C8_Witness ==
    \E p \in Slots :
        /\ pc[p] = "done"
        /\ Ran(p, "ReturnExisting")
        /\ \E n \in notes : n.id = result[p].value.v /\ n.updated_at > n.created_at + 1

\* a text value that is absent in effect: None, false, a zero, an empty
\* list or object, or a string that is blank after trimming
BlankText(x) ==
    \/ x \in {PyNone, PyBool(FALSE), PyInt(0), PyFloat(0), PyList(<<>>), PyDict(<<>>)}
    \/ x.t = "str" /\ Strip(x.v) = <<>>

\* a value that is not a non-empty list
NoList(x) == x.t # "list" \/ Len(x.v) = 0

\* the required fields a dict of note data lacks
LackedFields(d) ==
    {f \in TextFields : f \notin DOMAIN d.v \/ BlankText(d.v[f])}
    \cup {f \in ListFields : f \notin DOMAIN d.v \/ NoList(d.v[f])}

\* the required fields an error's detail names
NamedFields(o) == Range(o.detail) \cap Range(RequiredFields)

\* a stored key_points / timestamps column that decodes to no item
StoredListEmpty(x) ==
    \/ x.t # "str"
    \/ ~JsonLoads(x.v).ok
    \/ NoList(JsonLoads(x.v).value)

\* a stored note with every required field filled
Complete(n) ==
    /\ ~BlankText(n.video_title)
    /\ ~BlankText(n.channel_name)
    /\ ~BlankText(n.summary)
    /\ ~StoredListEmpty(n.key_points)
    /\ ~StoredListEmpty(n.timestamps)

\* C2: in every reachable state every stored note has a non-blank video_title,
\* channel_name and summary and non-empty key_points and timestamps.  (An
\* update_note request that blanks a field breaks it.)
C2_StoredNotesComplete == \A n \in notes : Complete(n)

\* C5: when the note data the generator built from the model's answer lacks a
\* required field, create_note ends with a 500 whose detail names every lacked
\* field, and the store equals the store at the start of the call.
C5_IncompleteNoteRejected ==
    [][\A p \in Slots, api \in ApiOutcomes :
         (GenerateWith(p, api) /\ api.ok /\ api.text.t = "str") =>
            LET video_title == DictGet(video[p], "title", PyStr(<<>>))
                channel_name == DictGet(video[p], "channel_name", PyStr(<<>>))
                note_data == ParseResponse(StripFences(api.text.v), video_title, channel_name)
            IN  (note_data.t = "dict"
                 /\ LackedFields(StructureNote(note_data, video_title, channel_name)) # {}) =>
                    /\ pc'[p] = "done"
                    /\ result'[p].kind = "http"
                    /\ result'[p].status = 500
                    /\ LackedFields(StructureNote(note_data, video_title, channel_name))
                          \subseteq NamedFields(result'[p])
                    /\ notes' = req[p].before]_vars

C5_Witness ==
    \E p \in Slots :
        /\ pc[p] = "done"
        /\ trace[p] = <<"CheckExisting", "Acquire", "Generate">>
        /\ result[p].status = 500
        /\ "key_points" \in NamedFields(result[p])
        /\ notes = req[p].before

\* C7: when the acquirer returns a transcript that is empty or only
\* whitespace, create_note ends with a 404, the generator is not run in that
\* request, and the store equals the store at the start of the call.
C7_BlankTranscriptNotFound ==
    \A p \in Slots :
        (/\ req[p].op = "create"
         /\ acqOut[p].outcome.kind = "return"
         /\ BlankText(acqOut[p].outcome.value.v["caption"])) =>
            /\ pc[p] = "done"
            /\ result[p].kind = "http"
            /\ result[p].status = 404
            /\ ~Ran(p, "Generate")
            /\ notes = req[p].before

C7_Witness ==
    \E p \in Slots :
        /\ pc[p] = "done"
        /\ acqOut[p].outcome.kind = "return"
        /\ acqOut[p].outcome.value.v["caption"] = PyStr(<<" ">>)
        /\ trace[p] = <<"CheckExisting", "Acquire">>
        /\ result[p].kind = "http"
        /\ result[p].status = 404

\* C9: no create_note call ends with an exception other than a typed HTTP
\* error.  (An exception of the session's existence query, raised before the
\* try block is entered, breaks it.)
C9_NoRawException ==
    \A p \in Slots : (pc[p] = "done" /\ req[p].op = "create") => result[p].kind # "raise"

\* the candidate with absent video_title and channel_name filled from the inputs
WithDefaults(note_data, video_title, channel_name) ==
    PyDict([k \in DOMAIN note_data.v \cup {"video_title", "channel_name"} |->
               IF k \in DOMAIN note_data.v THEN note_data.v[k]
               ELSE IF k = "video_title" THEN video_title ELSE channel_name])

\* C6 as the specification states it: validation of a parsed candidate fails
\* iff the candidate lacks a required field, and the error names exactly the
\* lacked fields.  (A candidate without video_title or channel_name breaks
\* it: the field is filled from the video's metadata before the check.)
C6_Original ==
    (genOut # NoOutcome /\ genIn.note_data.t = "dict") =>
        /\ genOut.kind # "return" <=> LackedFields(genIn.note_data) # {}
        /\ genOut.kind # "return" => NamedFields(genOut) = LackedFields(genIn.note_data)

\* C6: for a parsed candidate that is a JSON object, validation fails (with a
\* 500) iff a required field is lacking once an absent video_title or
\* channel_name has been filled from the video's metadata, and the error names
\* exactly the lacking fields.  A text field is lacking when it is absent, is
\* None, false, a zero, an empty string, list or object, or is a string that
\* is blank after trimming; a list field is lacking when it is absent or is
\* not a non-empty list.
C6_ValidationNamesMissing ==
    (genOut # NoOutcome /\ genIn.note_data.t = "dict") =>
        LET lacked == LackedFields(WithDefaults(genIn.note_data, genIn.video_title,
                                                genIn.channel_name))
        IN  /\ genOut.kind \in {"return", "http"}
            /\ genOut.kind = "http" <=> lacked # {}
            /\ genOut.kind = "http" =>
                   (genOut.status = 500 /\ NamedFields(genOut) = lacked)

\* the title is filled from the video, and the summary, an empty list, and the
\* timestamps are named
C6_Witness ==
    /\ genIn.note_data.t = "dict"
    /\ "video_title" \notin DOMAIN genIn.note_data.v
    /\ ~BlankText(genIn.video_title)
    /\ genOut.kind = "http"
    /\ "summary" \in DOMAIN genIn.note_data.v
    /\ genIn.note_data.v["summary"] = PyList(<<>>)
    /\ NamedFields(genOut) = {"summary", "timestamps"}

\* the leading text of every <text> element, the root included, in document order
AllTextContents(toks) ==
    LET elems == SelectSeq([i \in 1..Len(toks) |-> i], LAMBDA i : toks[i] = "<text>")
    IN  [k \in 1..Len(elems) |-> CharRun(toks, elems[k])]

\* C10: for well-formed markup the parser returns the text of every <text>
\* element in document order, joined by single spaces, whitespace runs
\* collapsed and both ends trimmed.  (Markup whose root element is itself a
\* <text> element breaks it: findall('.//text') leaves the root out.)
C10_EveryTextElement ==
    (xmlOut # NotRun /\ WellFormed(xmlIn)) => xmlOut = JoinAndClean(AllTextContents(xmlIn))

\* the pairs <<i, j>> of a <text> tag and the next </text> tag with one or more
\* characters, and no tag, between them
TextSpans(toks) ==
    {<<i, j>> \in (1..Len(toks)) \X (1..Len(toks)) :
        /\ j > i + 1
        /\ toks[i] = "<text>"
        /\ toks[j] = "</text>"
        /\ \A k \in (i + 1)..(j - 1) : IsCharData(toks[k])}

\* the texts of the spans, in the order the spans start
RECURSIVE SpanTexts(_, _)
SpanTexts(toks, spans) ==
    IF spans = {} THEN <<>>
    ELSE LET first == CHOOSE sp \in spans : \A other \in spans : sp[1] <= other[1]
         IN  <<SubSeq(toks, first[1] + 1, first[2] - 1)>> \o SpanTexts(toks, spans \ {first})

\* C11: the caption parser returns a text for every input: for markup that is
\* not well-formed, the space-joined, whitespace-collapsed, trimmed texts found
\* between <text ...> and </text> when there is one, and else the input as it
\* is; the empty input gives the empty text.
C11_MalformedMarkupFallback ==
    xmlOut # NotRun =>
        /\ ~WellFormed(xmlIn) =>
              xmlOut = IF TextSpans(xmlIn) # {}
                       THEN JoinAndClean(SpanTexts(xmlIn, TextSpans(xmlIn)))
                       ELSE xmlIn
        /\ xmlIn = <<>> => xmlOut = <<>>

C11_Witness ==
    /\ ~WellFormed(xmlIn)
    /\ Cardinality(TextSpans(xmlIn)) = 2
    /\ xmlOut = <<"a", " ", "b">>

\* the first n pieces of a text
FirstOf(text, n) == [i \in 1..(IF Len(text) < n THEN Len(text) ELSE n) |-> text[i]]

\* C12: when the model's answer, fences stripped, is not JSON, the candidate
\* handed on is the fallback object: video_title and channel_name are the
\* generator's inputs, summary is the first 1000 characters of the unparsed
\* answer, and key_points and timestamps each hold exactly one entry.
C12_FallbackObject ==
    (genOut # NoOutcome /\ ~JsonLoads(StripFences(genIn.response_text)).ok) =>
        LET note_data == genOut.value
        IN  /\ note_data.t = "dict"
            /\ DOMAIN note_data.v = Range(RequiredFields)
            /\ note_data.v["video_title"] = genIn.video_title
            /\ note_data.v["channel_name"] = genIn.channel_name
            /\ note_data.v["summary"]
                  = PyStr(FirstOf(StripFences(genIn.response_text), SummaryLimit))
            /\ note_data.v["key_points"].t = "list"
            /\ Len(note_data.v["key_points"].v) = 1
            /\ note_data.v["timestamps"].t = "list"
            /\ Len(note_data.v["timestamps"].v) = 1

C12_Witness ==
    /\ genOut # NoOutcome
    /\ Len(genIn.response_text) > SummaryLimit
    /\ Len(genOut.value.v["summary"].v) = SummaryLimit
    /\ Len(genOut.value.v["key_points"].v) = 1

\* the slot's acquirer called the named collaborator
Called(p, name) == \E c \in Range(acqOut[p].calls) : c.call = name

\* the scratch files of the slot's run that are on disk
ScratchFiles(p) == files \cap {DefaultFilename(req[p].url), AudioFileName(req[p].url)}

\* C13: when a run of the audio transcriber has ended, by a return or by an
\* exception, neither the downloaded container nor the normalized audio file
\* of the run is on disk.  (A failing transcode leaves the container, a
\* failing transcription call leaves the normalized file.)
C13_NoScratchFileLeft ==
    (pc[1] = "done" /\ Called(1, "_get_subtitle_from_audio")) => ScratchFiles(1) = {}

\* the acquirer, the video resolved, with at least one caption track: the first
\* track is fetched, parsed when the fetch succeeded, and the audio transcriber
\* is not called
CaptionPathTaken ==
    /\ \E c \in Range(acqOut[1].calls) : c.call = "requests.get"
    /\ \A c \in Range(acqOut[1].calls) : c.call = "requests.get" => c.track = 1
    /\ acqIn[1].fetch_ok => Called(1, "_extract_text_from_xml_transcript")
    /\ ~Called(1, "_get_subtitle_from_audio")

\* every service of the audio path answers well
AudioAnswersWell(audio) == audio.download_ok /\ audio.transcode_ok /\ audio.transcribe_ok

\* C14 as the specification states it: with a caption track the first one is
\* fetched and parsed and the transcriber is not called; with none the
\* transcriber is called and, when it succeeds, the acquirer returns with a
\* non-empty transcript.
C14_Original ==
    (pc[1] = "done" /\ acqIn[1].yt_ok) =>
        IF Len(acqIn[1].captions) > 0 THEN CaptionPathTaken
        ELSE /\ Called(1, "_get_subtitle_from_audio")
             /\ AudioAnswersWell(acqIn[1].audio) =>
                    /\ acqOut[1].outcome.kind = "return"
                    /\ acqOut[1].outcome.value.v["caption"].v # <<>>

\* C14: with a caption track the first one is fetched, parsed when the fetch
\* succeeded, and the transcriber is not called; with none the transcriber is
\* called and, when it succeeds, the acquirer returns with the transcriber's
\* text, empty or not, as the transcript, unless the read of the video's
\* metadata raises and that exception leaves the acquirer.
C14_CaptionsFirstThenAudio ==
    (pc[1] = "done" /\ acqIn[1].yt_ok) =>
        IF Len(acqIn[1].captions) > 0 THEN CaptionPathTaken
        ELSE /\ Called(1, "_get_subtitle_from_audio")
             /\ AudioAnswersWell(acqIn[1].audio) =>
                    IF acqIn[1].meta_ok
                    THEN /\ acqOut[1].outcome.kind = "return"
                         /\ acqOut[1].outcome.value.v["caption"]
                                = PyStr(acqIn[1].audio.transcript)
                    ELSE acqOut[1].outcome.kind = "raise"

C14_Witness ==
    /\ pc[1] = "done"
    /\ acqIn[1].yt_ok
    /\ Len(acqIn[1].captions) = 0
    /\ Called(1, "_get_subtitle_from_audio")
    /\ acqOut[1].outcome.kind = "return"
    /\ acqOut[1].outcome.value.v["caption"] = PyStr(<<>>)
    /\ result[1] = acqOut[1].outcome

\* a stage of the acquisition fails
AcquisitionFails ==
    \/ ~acqIn[1].yt_ok
    \/ Len(acqIn[1].captions) > 0 /\ ~acqIn[1].fetch_ok
    \/ Len(acqIn[1].captions) = 0 /\ ~AudioAnswersWell(acqIn[1].audio)
    \/ ~acqIn[1].meta_ok

\* C15: whichever stage of the acquisition fails, the acquirer ends with one
\* HTTP 500 whose detail carries the cause, and returns nothing.  (An exception
\* of the metadata read, made after the try block, breaks it.)
C15_AcquisitionFailureTyped ==
    (pc[1] = "done" /\ AcquisitionFails) =>
        /\ acqOut[1].outcome.kind = "http"
        /\ acqOut[1].outcome.status = 500
        /\ Range(Cause) \subseteq Range(acqOut[1].outcome.detail)

\* the token a request carries: a non-empty cookie, else a Bearer header
TokenOf(r) ==
    IF r.cookie \notin {PyNone, PyStr(<<>>)} THEN r.cookie
    ELSE IF r.authorization # PyNone /\ r.authorization.scheme = "Bearer"
    THEN r.authorization.token
    ELSE PyNone

\* the user id a valid token names, 0 for a missing or invalid token
UserNamed(r) ==
    LET tk == TokenOf(r)
    IN  IF tk \in {PyNone, PyStr(<<>>)} THEN 0
        ELSE IF tk.fault # "none" \/ tk.sub = PyNone THEN 0
        ELSE IF tk.sub.v = <<"1">> THEN 1
        ELSE IF tk.sub.v = <<"2">> THEN 2
        ELSE IF tk.sub.v = <<"3">> THEN 3
        ELSE IF tk.sub.v = <<"4">> THEN 4
        ELSE 0

\* 401 for a missing or invalid token, 404 for an unknown user, 403 for an
\* inactive one, 0 for a request that is let in
RefusalOf(r) ==
    IF UserNamed(r) = 0 THEN 401
    ELSE IF \A u \in UserTable : u.id # UserNamed(r) THEN 404
    ELSE IF \E u \in UserTable : u.id = UserNamed(r) /\ ~u.is_active THEN 403
    ELSE 0

\* a step of the service: an endpoint is called, a call of the service goes
\* on, or the store, the id sequence or the list result changes
ServiceStep ==
    \/ caller'.entered /\ ~caller.entered
    \/ \E q \in Slots : pc'[q] \notin {"idle", pc[q]}
    \/ notes' # notes
    \/ nextId' # nextId
    \/ listOut' \notin {listOut, NoListOut}

\* C16: a request to a notes endpoint (create, list, get, update, delete) is
\* served exactly when it carries a valid token of an existing, active user;
\* a missing or invalid token is answered 401, an unknown user 404, an
\* inactive user 403, and then the endpoint is not called and the service is
\* not entered: no note is listed, created, changed or removed and no
\* pipeline stage starts.  The service runs only for a request that was let
\* in, with the id of the user that the token names.
C16_OnlyAuthenticatedServed ==
    [][ /\ (caller = NoCaller /\ caller' # NoCaller) =>
              /\ caller'.op \in {"create", "list", "get", "update", "delete"}
              /\ caller'.served <=> RefusalOf(caller'.request) = 0
              /\ caller'.served => caller'.user = UserNamed(caller'.request)
              /\ ~caller'.entered
              /\ ~ServiceStep
              /\ RefusalOf(caller'.request) # 0 =>
                    last' = [op |-> caller'.op, status |-> RefusalOf(caller'.request)]
        /\ ServiceStep =>
              /\ caller.served
              /\ RefusalOf(caller.request) = 0
              /\ caller'.entered
              /\ \A q \in Slots : pc'[q] # "idle" => req'[q].user = UserNamed(caller.request)
        /\ (caller # NoCaller /\ ~caller.served) =>
              \/ caller' = caller
              \/ /\ caller' = NoCaller
                 /\ ~ServiceStep
                 /\ \A q \in Slots : pc'[q] = "idle" /\ trace'[q] = <<>> ]_vars

\* with notes stored, the delete request of an inactive user was refused
C16_Witness ==
    /\ notes # {}
    /\ caller.op = "delete"
    /\ ~caller.served
    /\ RefusalOf(caller.request) = 403
    /\ last = [op |-> "delete", status |-> 403]

\* C17: get_notes uses page size 10 when none is given and otherwise the
\* requested size clamped into 1..100 (1 below the range, 100 above it, the
\* request itself inside it); the list it returns is never longer than that
\* effective page size.
C17_PageSizeClamped ==
    listOut # NoListOut =>
        LET asked == listIn.page_size
            effective == listOut.page_size
        IN  /\ asked = PyNone => effective = 10
            /\ asked # PyNone /\ asked.v < 1 => effective = 1
            /\ asked # PyNone /\ asked.v > 100 => effective = 100
            /\ asked # PyNone /\ asked.v \in 1..100 => effective = asked.v
            /\ Len(listOut.notes) <= effective

\* a request for more than 100 notes on a table that holds more: 100 come back
C17_Witness ==
    /\ listOut # NoListOut
    /\ listIn.page_size # PyNone
    /\ listIn.page_size.v > 100
    /\ listOut.total_notes > 100
    /\ Len(listOut.notes) = 100

\* the call in slot p looked for a note of its (user, URL), found none and
\* went on to the acquirer
PassedCheck(p) ==
    /\ Len(trace[p]) >= 1
    /\ trace[p][1] = "CheckExisting"
    /\ \/ pc[p] \in {"Acquire", "Generate", "Validate", "Persist", "Refresh"}
       \/ pc[p] = "done" /\ Len(trace[p]) >= 2 /\ trace[p][2] = "Acquire"

\* two calls in flight for one (user, URL), each past an existence check that
\* found nothing: both checks ran before either commit
Raced ==
    /\ req[1].user = req[2].user
    /\ req[1].url = req[2].url
    /\ PassedCheck(1)
    /\ PassedCheck(2)

RowsOf(user_id, url) == {n \in notes : n.user_id = user_id /\ n.youtube_url = url}

\* C18: when two create_note calls for the same (user, URL) both pass the
\* existence check before either commits, each of them runs the acquirer and
\* the generator, each that returns has inserted a row of its own, and when
\* both have returned the pair has two persisted notes.
C18_RaceInsertsTwice ==
    Raced =>
        /\ \A p \in Slots :
              pc[p] = "done" =>
                 /\ trace[p] = <<"CheckExisting", "Acquire", "Generate", "Validate", "Persist">>
                 /\ result[p].kind = "return" =>
                       \E n \in RowsOf(req[p].user, req[p].url) :
                           n.id = result[p].value.v /\ n \notin req[p].before
        /\ (\A p \in Slots : pc[p] = "done" /\ result[p].kind = "return") =>
              /\ result[1].value # result[2].value
              /\ Cardinality(RowsOf(req[1].user, req[1].url)) >= 2

\* both calls of a race have returned and the pair has two notes
C18_Witness ==
    /\ Raced
    /\ \A p \in Slots : pc[p] = "done" /\ result[p].kind = "return"
    /\ Cardinality(RowsOf(req[1].user, req[1].url)) = 2

\* the fields of a note that an update request can name
RequestFields ==
    {"video_title", "channel_name", "summary", "key_points", "timestamps",
     "duration_in_seconds", "thumbnail_url", "views", "likes", "publish_date"}

\* note new is note old after an update that set the fields of d at time at:
\* the identity and the creation time are kept, a field that d does not name
\* is kept, a text field that d names holds d's value, a list field that d
\* names holds None for None and a string otherwise
UpdatedAs(old, new, d, at) ==
    /\ new.id = old.id
    /\ new.user_id = old.user_id
    /\ new.youtube_url = old.youtube_url
    /\ new.created_at = old.created_at
    /\ new.updated_at = at
    /\ \A f \in RequestFields \ DOMAIN d.v : new[f] = old[f]
    /\ \A f \in DOMAIN d.v \ {"key_points", "timestamps"} : new[f] = d.v[f]
    /\ \A f \in DOMAIN d.v \cap {"key_points", "timestamps"} :
          IF d.v[f] = PyNone THEN new[f] = PyNone ELSE new[f].t = "str"

\* C19: the commit of update_note(id, u, d) changes, of the note id, exactly
\* the fields that d names, of the ten that a request can name, and
\* updated_at, which takes the reading of the clock the call made: id,
\* user_id, youtube_url, created_at and every field that d does not name keep
\* their values, and every other persisted note is unchanged; the refresh
\* after it changes nothing.
C19_UpdateChangesOnlyRequested ==
    [][ \A p \in Slots :
            /\ (UpdateCommit(p) /\ pc'[p] = "UpdateRefresh") =>
                  \E old \in notes, new \in notes' :
                      /\ old.id = req[p].note_id
                      /\ notes' \ {new} = notes \ {old}
                      /\ UpdatedAs(old, new, req[p].update, req[p].held.updated_at)
            /\ UpdateRefresh(p) => notes' = notes ]_vars

\* a note updated while a note of another id was stored, which is as its
\* creation left it: the updated note's title is the empty title of the
\* request, its channel name and its metadata are still those of its creation
C19_Witness ==
    /\ \E n \in notes, m \in notes :
          /\ n.id # m.id
          /\ m.created_at < n.updated_at
          /\ m.updated_at = m.created_at + 1
          /\ m.video_title # PyStr(<<>>)
          /\ n.updated_at > n.created_at + 1
          /\ n.video_title = PyStr(<<>>)
          /\ n.channel_name # PyNone
          /\ n.key_points = PyNone
          /\ n.views = VideoViews

\* a note whose metadata was updated while a note of another id was stored:
\* its channel name, duration, thumbnail, likes and publish date are those of
\* the request, its title, its summary and its views those of its creation
C19_MetadataUpdated ==
    /\ \E n \in notes, m \in notes :
          /\ n.id # m.id
          /\ m.created_at < n.updated_at
          /\ n.duration_in_seconds = PyNone
          /\ n.likes = PyInt(0)
          /\ n.publish_date = PyDatetime(2)
          /\ n.views = VideoViews
          /\ n.video_title # PyStr(<<>>)

\* the create_note call in the slot is for a (user, URL) whose note was deleted
\* and that had no note when the call started
RecreatesDeleted ==
    /\ \E d \in deleted : d.user_id = req[1].user /\ d.youtube_url = req[1].url
    /\ ExistedBefore(1) = {}

\* a deleted note is not stored, is in no list result, and a finished
\* create_note for its (user, URL) did not answer from the store: it ran the
\* acquirer, and if it returned, it ran every stage and its note is a stored
\* row of a new id
C20_Gone ==
    /\ \A d \in deleted : \A n \in notes : n.id # d.id
    /\ \A d \in deleted : \A i \in 1..Len(listOut.notes) : listOut.notes[i].id # d.id
    /\ (pc[1] = "done" /\ req[1].op = "create" /\ RecreatesDeleted
        /\ result[1].kind # "raise") =>
          /\ ~Ran(1, "ReturnExisting")
          /\ Ran(1, "Acquire")
          /\ result[1].kind = "return" =>
                /\ trace[1] = <<"CheckExisting", "Acquire", "Generate", "Validate", "Persist">>
                /\ \E n \in notes :
                      /\ n.id = result[1].value.v
                      /\ n.user_id = req[1].user
                      /\ n.youtube_url = req[1].url
                      /\ n \notin req[1].before
                      /\ \A d \in deleted : n.id # d.id

\* the commit of a served delete that succeeds removes the one row of that
\* id, owned by the caller, and leaves every other row as it was; a served
\* get, update or delete of a deleted id ends with its read, answers 404
\* (unless the session's read itself raised) and leaves the store as it was
C20_Step ==
    /\ (DeleteCommit(1) /\ last'.status = 200) =>
          \E n \in notes :
              /\ n.id = req[1].note_id
              /\ n.user_id = req[1].user
              /\ n.user_id = UserNamed(caller.request)
              /\ notes' = notes \ {n}
              /\ Removed(n) \in deleted'
    /\ (/\ caller.args.note_id \in Ids(deleted)
        /\ GetNoteRoute \/ DeleteNoteRoute \/ UpdateNoteRoute) =>
             /\ pc'[1] = "idle"
             /\ last'.op \in {"get", "update", "delete"}
             /\ last'.status \in {404, 0}
             /\ notes' = notes

\* C20: after a successful delete_note(n) by its owner, n is no longer
\* persisted: every later get, update or delete of n answers 404, no later
\* list result holds n, the delete left all other notes unchanged, and a later
\* create_note by the same user for the same URL runs the full pipeline and
\* persists a new note.
C20_DeletedForGood == [](C20_Gone) /\ [][C20_Step]_vars

\* a note was deleted and a later create_note for its user and URL has
\* returned a new note
C20_Witness ==
    /\ pc[1] = "done"
    /\ RecreatesDeleted
    /\ result[1].kind = "return"
    /\ \E n \in notes : n.id = result[1].value.v /\ n.id \notin Ids(deleted)

\* the opening markers and the closing markers of a fenced answer
Openers == {Fence, FenceJson}

Closers == {Fence}

Blanks == {<<>>, <<" ">>, <<"\n">>}

\* C21: before parsing, one leading fence marker (three backquotes, with or
\* without "json") and one trailing marker are removed from the trimmed
\* answer: a JSON object between such markers is parsed as that object and
\* the fallback is not taken, and of two markers in a row only the outer one
\* is removed, so that the inner one stays in the unparsed text.
C21_FenceStripped ==
    genOut # NoOutcome =>
        \A lead \in Openers \cup {<<>>}, trail \in Closers \cup {<<>>}, w1 \in Blanks, w2 \in Blanks :
            /\ \A doc \in DOMAIN JsonDocs :
                  genIn.response_text = w1 \o lead \o w2 \o <<doc>> \o w2 \o trail \o w1
                      => genOut.value = JsonDocs[doc]
            /\ (lead # <<>> /\ trail # <<>>
                /\ genIn.response_text = w1 \o lead \o lead \o <<"x">> \o trail \o trail \o w1)
                  => genOut.value.v["summary"] = PyStr(lead \o <<"x">> \o trail)

\* an object between an opening marker with "json" and a closing marker, with
\* line breaks inside, came out as the object
C21_Witness ==
    /\ genIn.response_text = FenceJson \o <<"\n", "{full}", "\n">> \o Fence
    /\ genOut # NoOutcome
    /\ genOut.value = JsonDocs["{full}"]

\* C22: for every parsed answer, whatever JSON value it is, the coercion of
\* key_points and timestamps raises nothing: the generator either returns or
\* fails in its validation, whose error names the missing fields, and a
\* key_points or timestamps value that is present but no list is named there.
\* (An answer that parses to a list, a string, a number or null has no get
\* method: lines 301-302 raise AttributeError, and the error names no field.)
C22_CoercionNeverRaises ==
    genOut # NoOutcome =>
        /\ genOut.kind \in {"return", "http"}
        /\ genOut.kind = "http" => NamedFields(genOut) # {}
        /\ \A f \in ListFields :
              (/\ genIn.note_data.t = "dict"
               /\ f \in DOMAIN genIn.note_data.v
               /\ genIn.note_data.v[f].t # "list") => f \in NamedFields(genOut)

\* the stages of create_note in their order
Pipeline == <<"CheckExisting", "Acquire", "Generate", "Validate", "Persist">>

StageNo(stage) == CHOOSE k \in 1..Len(Pipeline) : Pipeline[k] = stage

\* the steps of the audio path, which belong to the stage Acquire
AudioSteps == {"Download", "Transcode", "Export", "RemoveContainer", "Transcribe", "RemoveNormalized"}

\* C23: within one create_note request the stages run in the order
\* CheckExisting, Acquire, Generate, Validate, Persist, each at most once: a
\* call that is at a stage has run exactly the stages before it, a finished
\* call has run a leading part of that order or CheckExisting and
\* ReturnExisting alone; the generator is reached only with the acquirer's
\* result at hand, the insert only with the generator's result at hand and
\* no required field missing, and a new row is stored only by a call that
\* ran all five stages.
C23_StagesInOrder ==
    \A p \in Slots :
        req[p].op = "create" =>
            /\ pc[p] \in Range(Pipeline) => trace[p] = SubSeq(Pipeline, 1, StageNo(pc[p]) - 1)
            /\ pc[p] \in AudioSteps => trace[p] = <<"CheckExisting">>
            /\ pc[p] = "Refresh" => trace[p] = Pipeline
            /\ pc[p] = "done" =>
                  \/ trace[p] = <<"CheckExisting", "ReturnExisting">>
                  \/ \E k \in 1..Len(Pipeline) : trace[p] = SubSeq(Pipeline, 1, k)
            /\ pc[p] \in {"Generate", "Validate", "Persist"} => video[p].t = "dict"
            /\ pc[p] \in {"Validate", "Persist"} => generated[p].t = "dict"
            /\ pc[p] = "Persist" => CreateMissingFields(generated[p]) = <<>>
            /\ ~(Ids(notes) \subseteq Ids(req[p].before)) =>
                  /\ pc[p] \in {"Refresh", "done"}
                  /\ trace[p] = Pipeline
            /\ (pc[p] = "done" /\ result[p].kind = "return"
                /\ ~Ran(p, "ReturnExisting")) =>
                  /\ trace[p] = Pipeline
                  /\ result[p].value.v \in Ids(notes) \ Ids(req[p].before)

\* a call that ran all five stages and stored its note
C23_Witness ==
    /\ pc[1] = "done"
    /\ trace[1] = Pipeline
    /\ result[1].kind = "return"
    /\ result[1].value.v \in Ids(notes) \ Ids(req[1].before)

\* C24: the orchestrator's second check agrees with the generator's own: on
\* every structured candidate both compute the same missing-field list, so
\* whenever the generator returns, the list computed in create_note is empty.
C24_SecondCheckAgrees ==
    genOut # NoOutcome =>
        /\ genIn.note_data.t = "dict" =>
              LET res == StructureNote(genIn.note_data, genIn.video_title, genIn.channel_name)
              IN  CreateMissingFields(res) = MissingFields(res)
        /\ genOut.kind = "return" => CreateMissingFields(genOut.value) = <<>>

\* the generator returned a note whose title is a number, and the second
\* check finds nothing missing in it
C24_Witness ==
    /\ genOut # NoOutcome
    /\ genOut.kind = "return"
    /\ genOut.value.v["video_title"] = PyInt(7)
    /\ CreateMissingFields(genOut.value) = <<>>

-----------------------------------------------------------------------------
(* The generator as a whole (lines 108-343), on every answer of            *)
(* generate_content: it raised, it returned a response without text, or it *)
(* returned one of the response texts                                      *)

GenerateApis ==
    { [ok |-> FALSE, text |-> PyNone, msg |-> Cause],
      [ok |-> TRUE, text |-> PyNone, msg |-> <<>>] }
    \cup { [ok |-> TRUE, text |-> PyStr(r), msg |-> <<>>] : r \in ResponseTexts }

InitGenerate ==
    /\ notes = {}
    /\ nextId = 1
    /\ now = 0
    /\ pc = [q \in Slots |-> "idle"]
    /\ req = [q \in Slots |-> NoReq]
    /\ video = [q \in Slots |-> PyNone]
    /\ generated = [q \in Slots |-> PyNone]
    /\ result = [q \in Slots |-> NoOutcome]
    /\ trace = [q \in Slots |-> <<>>]
    /\ last = NoLast
    /\ xmlIn = <<>>
    /\ xmlOut = NotRun
    /\ genIn \in [api : GenerateApis, video_title : Titles, channel_name : Channels]
    /\ genOut = NoOutcome
    /\ acqIn = [q \in Slots |-> NoAcqIn]
    /\ acqOut = [q \in Slots |-> NoAcqOut]
    /\ listIn = NoListIn
    /\ listOut = NoListOut
    /\ caller = NoCaller
    /\ deleted = {}
    /\ users = UserTable
    /\ nextUserId = Cardinality(UserTable) + 1
    /\ files = {}

GenerateStep ==
    /\ genOut = NoOutcome
    /\ genOut' = GenerateNoteWithGemini(genIn.api, genIn.video_title, genIn.channel_name)
    /\ UNCHANGED <<notes, nextId, now, pc, req, video, generated, result, trace, last,
                   users, nextUserId, files, xmlIn, xmlOut, genIn, acqIn, acqOut, listIn, listOut, caller, deleted>>

NextGenerate == GenerateStep

SpecGenerate == InitGenerate /\ [][NextGenerate]_vars

\* a text value that is a string with something other than whitespace in it
NonBlankText(x) == x.t = "str" /\ \E i \in 1..Len(x.v) : x.v[i] \notin Whitespace

\* C29: for every answer of the model the generator either returns a result
\* whose three text fields are non-blank and whose two lists are non-empty
\* lists, or raises an HTTP 500 condition.
C29_CompleteOrHttp500 ==
    genOut # NoOutcome =>
        \/ /\ genOut.kind = "return"
           /\ DOMAIN genOut.value.v = Range(RequiredFields)
           /\ \A f \in TextFields : NonBlankText(genOut.value.v[f])
           /\ \A f \in ListFields : genOut.value.v[f].t = "list" /\ genOut.value.v[f].v # <<>>
        \/ genOut.kind = "http" /\ genOut.status = 500

\* valid JSON that is not an object ended in an HTTP 500 condition
C29_Witness ==
    /\ genOut # NoOutcome
    /\ genIn.api.text = PyStr(<<"[", "k1", "]">>)
    /\ genOut.kind = "http"
    /\ genOut.status = 500

\* an empty response ended in an HTTP 500 condition that names the summary
C29_EmptyResponse ==
    genOut # NoOutcome /\ genIn.api.text = PyStr(<<>>) /\ genOut.kind = "http"
    /\ "summary" \in NamedFields(genOut)

\* invalid JSON ended in the complete fallback note
C29_InvalidJson ==
    genOut # NoOutcome /\ genIn.api.text = PyStr(<<"x">>) /\ genOut.kind = "return"

\* the caller's stored rows that the search of the call selects
Matching == SearchFilter({n \in listIn.rows : n.user_id = listIn.user_id}, listIn.search)

\* C25: for every table of rows, page, page size and search term, get_notes
\* returns only stored notes of the caller that the search selects, and
\* total_notes is the number of the caller's notes that the search selects.
C25_OnlyCallersNotes ==
    listOut # NoListOut =>
        /\ \A i \in 1..Len(listOut.notes) :
              /\ listOut.notes[i] \in listIn.rows
              /\ listOut.notes[i].user_id = listIn.user_id
              /\ listOut.notes[i] \in Matching
        /\ listOut.total_notes = Cardinality(Matching)
        /\ listOut.total_notes <= Cardinality({n \in listIn.rows : n.user_id = listIn.user_id})

\* a search that selects rows of both users returned the caller's row alone
C25_Witness ==
    /\ listOut # NoListOut
    /\ Truthy(listIn.search)
    /\ \E n \in SearchFilter(listIn.rows, listIn.search) : n.user_id # listIn.user_id
    /\ listOut.total_notes = 1
    /\ Len(listOut.notes) = 1

\* page k of the call's listing, with the call's table, caller, size and search
PageOf(k) ==
    GetNotes(listIn.rows, listIn.user_id, k, listOut.page_size, listIn.search).notes

RECURSIVE PagesUpTo(_)
PagesUpTo(k) == IF k = 0 THEN <<>> ELSE PagesUpTo(k - 1) \o PageOf(k)

\* C26: with N matching notes and effective page size s, total_pages is
\* max(1, ceil(N/s)), current_page is the asked page clamped to
\* 1..total_pages, the call returns that page, and the pages 1..total_pages
\* one after the other hold every matching note exactly once, newest first
\* (the pages are put together for listings of up to MaxRows + 1 pages).
C26_PagesCoverAll ==
    listOut # NoListOut =>
        LET N == listOut.total_notes
            s == listOut.page_size
        IN  /\ listOut.total_pages >= 1
            /\ listOut.total_pages * s >= N
            /\ listOut.total_pages > 1 => (listOut.total_pages - 1) * s < N
            /\ listOut.current_page = Max2(1, Min2(listIn.current_page, listOut.total_pages))
            /\ N = Cardinality(Matching)
            /\ listOut.total_pages <= MaxRows + 1 =>
                  LET all == PagesUpTo(listOut.total_pages)
                  IN  /\ listOut.notes = PageOf(listOut.current_page)
                      /\ Len(all) = N
                      /\ Range(all) = Matching
                      /\ \A i \in 1..Len(all) : \A j \in 1..Len(all) :
                            i < j => all[i].created_at > all[j].created_at

\* three matching notes in pages of two: the page asked for lies past the last
C26_Witness ==
    /\ listOut # NoListOut
    /\ listOut.total_notes = 3
    /\ listOut.page_size = 2
    /\ listIn.current_page > 2
    /\ listOut.total_pages = 2
    /\ listOut.current_page = 2
    /\ Len(listOut.notes) = 1

-----------------------------------------------------------------------------
(* The user service, one call at a time, from an empty table               *)

Emails == {<<"t", "@", "x">>, <<"T", "@", "x">>, <<"c", "@", "x">>, <<"s", "@", "x">>}

Passwords == {<<"p", "1">>, <<"p", "2">>}

UserIds == 1..(MaxUsers + 1)

\* the fields an update request sets: none, an email, or an email of None
UpdateFields ==
    {<<>>, "email" :> PyNone} \cup {"email" :> PyStr(e) : e \in Emails}

InitUsers ==
    /\ notes = {}
    /\ nextId = 1
    /\ now = 0
    /\ pc = [q \in Slots |-> "idle"]
    /\ req = [q \in Slots |-> NoReq]
    /\ video = [q \in Slots |-> PyNone]
    /\ generated = [q \in Slots |-> PyNone]
    /\ result = [q \in Slots |-> NoOutcome]
    /\ trace = [q \in Slots |-> <<>>]
    /\ last = NoLast
    /\ xmlIn = <<>>
    /\ xmlOut = NotRun
    /\ genIn = NoGenIn
    /\ genOut = NoOutcome
    /\ acqIn = [q \in Slots |-> NoAcqIn]
    /\ acqOut = [q \in Slots |-> NoAcqOut]
    /\ listIn = NoListIn
    /\ listOut = NoListOut
    /\ caller = NoCaller
    /\ deleted = {}
    /\ users = {}
    /\ nextUserId = 1
    /\ files = {}

\* a step of a call of the user service in slot p, the calls made with
\* these emails, user ids and update requests
UserStep(p, emails, ids, updates) ==
    \/ \E e \in emails : CreateUserCall(p, e, <<"p", "1">>)
    \/ CreateUserCommit(p)
    \/ UserRefresh(p)
    \/ \E id \in ids, f \in updates : UpdateUserCall(p, id, f)
    \/ UpdateUserCheck(p)
    \/ UpdateUserCommit(p)
    \/ \E id \in ids : DeleteUserCall(p, id)
    \/ DeleteUserCommit(p)
    \/ \E id \in ids : DeactivateUserCall(p, id)
    \/ \E id \in ids : ActivateUserCall(p, id)
    \/ SetActiveCommit(p)
    \/ \E id \in ids : PermanentDeleteUserCall(p, id)
    \/ PermanentDeleteUserCommit(p)

NextUsers ==
    \/ UserStep(1, Emails, UserIds, UpdateFields)
    \/ \E e \in Emails, pw \in Passwords : AuthenticateUserCall(e, pw)

SpecUsers == InitUsers /\ [][NextUsers]_vars

\* the calls of the user service two at a time, their round trips to the
\* database interleaved in every order
NextUserRace ==
    \E p \in Slots :
        UserStep(p, {<<"t", "@", "x">>, <<"T", "@", "x">>, <<"s", "@", "x">>}, {1, 2},
                 {"email" :> PyStr(<<"c", "@", "x">>)})

SpecUserRace == InitUsers /\ [][NextUserRace]_vars

\* no two stored users have the same id or the same email
C27_Unique ==
    \A u1 \in users, u2 \in users : (u1.id = u2.id \/ u1.email = u2.email) => u1 = u2

\* the email that the slot's update_user asks for
AskedEmail(p) == req[p].update.v["email"].v

\* the email check of a create_user or of an update_user that finds the email
\* with another stored user, active or not, answers 400 and the call is
\* over, and otherwise the call goes on to its commit; the commit of a
\* create_user stores the user under the lowercased email and a new id, and
\* the commit of an update_user that asks for an email gives the user that
\* email and changes nothing else; a call that answers 400 leaves the table
\* as it was
C27_Step ==
    /\ \A p \in Slots, e \in Emails :
          CreateUserCall(p, e, <<"p", "1">>) =>
              IF \E u \in users : u.email = Lower(e)
              THEN last' = [op |-> "create_user", status |-> 400] /\ pc'[p] = "idle"
              ELSE pc'[p] = "UserCommit"
    /\ \A p \in Slots :
          UpdateUserCheck(p) =>
              IF \E u \in users : u.id # req[p].user /\ u.email = AskedEmail(p)
              THEN last' = [op |-> "update_user", status |-> 400] /\ pc'[p] = "idle"
              ELSE pc'[p] = "UserCommit"
    /\ \A p \in Slots :
          CreateUserCommit(p) =>
              /\ pc'[p] = "UserRefresh"
              /\ \E u \in users' :
                    /\ users' = users \cup {u}
                    /\ u.email = Lower(req[p].update.email)
                    /\ \A v \in users : v.id # u.id /\ v.email # u.email
    /\ \A p \in Slots :
          (UpdateUserCommit(p) /\ Truthy(DictGet(req[p].update, "email", PyNone))) =>
              /\ pc'[p] = "UserRefresh"
              /\ \E old \in users :
                    /\ old.id = req[p].user
                    /\ users' = (users \ {old}) \cup {[old EXCEPT !.email = AskedEmail(p)]}
                    /\ \A v \in users \ {old} : v.email # AskedEmail(p)
    /\ \A p \in Slots :
          (UserRefresh(p) /\ req[p].op \in {"create_user", "update_user"}) =>
              last' = [op |-> req[p].op, status |-> 200] /\ users' = users
    /\ (last' # last /\ last'.status = 400) => users' = users

\* C27: after any sequence of create_user and update_user calls that run one
\* at a time, no two stored users have the same email: a create or an email
\* change that would duplicate another user's email answers 400 and leaves
\* all users as they were.  (The calls of the specification also overlap; the
\* unique index on the email keeps the table so then as well.)
C27_EmailsUnique == [](C27_Unique) /\ [][C27_Step]_vars

\* two users are stored, one of them deactivated, and an update_user was
\* answered 400
C27_Witness ==
    /\ Cardinality(users) >= 2
    /\ last = [op |-> "update_user", status |-> 400]
    /\ \E u \in users : ~u.is_active

-----------------------------------------------------------------------------
(* The notes routes and the user service together: users are deactivated   *)
(* and activated, and log in, while requests with their tokens arrive and  *)
(* a create_note pipeline may be under way                                 *)

\* requests carrying the valid tokens of users 1 and 2
TokenRequests ==
    { Cookie(Jwt("none", PyStr(<<"1">>))), Header("Bearer", Jwt("none", PyStr(<<"2">>))) }

\* the ids that the requests of SpecAccess name: the first note stored
AccessIds == {1}

NextAccess ==
    \/ \E r \in TokenRequests : SolveDependencies("create", r, CreateArgs("u1"))
    \/ CreateNoteRoute
    \/ CheckExisting(1)
    \/ AcquireWith(1, OkEnv)
    \/ GenerateWith(1, OkApi)
    \/ Validate(1)
    \/ Persist(1)
    \/ Refresh(1)
    \/ UpdateCommit(1)
    \/ UpdateRefresh(1)
    \/ DeleteCommit(1)
    \/ \E r \in TokenRequests : SolveDependencies("list", r, ListArgs(1, PyNone, PyNone))
    \/ GetNotesRoute
    \/ \E r \in TokenRequests, id \in AccessIds : SolveDependencies("get", r, NoteArgs(id))
    \/ GetNoteRoute
    \/ \E r \in TokenRequests, id \in AccessIds,
          d \in {u \in SampleUpdates : DOMAIN u.v # {}} :
             SolveDependencies("update", r, UpdateArgs(id, d))
    \/ UpdateNoteRoute
    \/ \E r \in TokenRequests, id \in AccessIds : SolveDependencies("delete", r, NoteArgs(id))
    \/ DeleteNoteRoute
    \/ Respond
    \/ DeleteUserCall(2, 1)
    \/ DeleteUserCommit(2)
    \/ PermanentDeleteUserCall(2, 1)
    \/ PermanentDeleteUserCommit(2)
    \/ DeactivateUserCall(2, 1)
    \/ ActivateUserCall(2, 1)
    \/ SetActiveCommit(2)
    \/ UserRefresh(2)
    \/ \E u \in UserTable, pw \in Passwords : AuthenticateUserCall(u.email, pw)

SpecAccess == Init /\ [][NextAccess]_vars

\* the stored user of that id is deactivated
Inactive(id) == \E u \in users : u.id = id /\ ~u.is_active

\* no user of that id is stored
Gone(id) == \A u \in users : u.id # id

\* the request is answered with that status in the step of its dependency:
\* its endpoint is not called, no note is listed and no note is stored,
\* changed or removed
RefusedWith(code) ==
    /\ ~caller'.served
    /\ last' = [op |-> caller'.op, status |-> code]
    /\ notes' = notes
    /\ nextId' = nextId
    /\ listOut' = NoListOut
    /\ pc'[1] = "idle"

C28_TokenRefused ==
    /\ Inactive(1)
    /\ \E n \in notes : n.user_id = 1
    /\ caller # NoCaller
    /\ caller.op = "delete"
    /\ UserNamed(caller.request) = 1
    /\ ~caller.served
    /\ last = [op |-> "delete", status |-> 403]

\* user 1 was removed by permanent_delete_user, and the request with that
\* user's token was answered 404
C28_Removed ==
    /\ Gone(1)
    /\ caller # NoCaller
    /\ UserNamed(caller.request) = 1
    /\ ~caller.served
    /\ last = [op |-> caller.op, status |-> 404]

\* a create_note request let in before its user was deactivated stored its
\* note after the deactivation
C28_AdmittedBefore ==
    /\ Inactive(1)
    /\ pc[1] = "done"
    /\ req[1].user = 1
    /\ result[1].kind = "return"
    /\ trace[1] = Pipeline
    /\ \E n \in notes : n.id = result[1].value.v /\ n \notin req[1].before

-----------------------------------------------------------------------------
(* Two create_note calls at a time for videos without captions, up to the *)
(* end of their acquisition: each takes the audio path (lines 762-807) on  *)
(* the one directory temp_audio_files.  The platform, the transcoder and   *)
(* the transcriber answer well, so an acquisition can fail only for a file *)
(* that is not there.                                                      *)

\* the video has no caption track
AudioOnlyEnv == [OkEnv EXCEPT !.captions = <<>>]

NextScratch ==
    \E p \in Slots :
        \/ \E u \in Users, x \in Urls : StartCreate(p, u, x) /\ UNCHANGED caller
        \/ CheckExisting(p)
        \/ AcquireWith(p, AudioOnlyEnv)
        \/ AudioPath(p)

SpecScratch == Init /\ [][NextScratch]_vars

\* C30: two runs of the audio path at the same time do not interfere through
\* the scratch files: with the platform, the transcoder and the transcriber
\* answering well, no run finds a file it needs removed by the other run, so
\* every run that ends returns its transcript.
C30_RunsDoNotInterfere ==
    \A p \in Slots : acqOut[p].outcome # NoOutcome => acqOut[p].outcome.kind = "return"

\* a run that has the directory to itself returns its transcript
C30_AloneSucceeds ==
    \A p \in Slots :
        (acqOut[p].outcome # NoOutcome /\ \A q \in Slots \ {p} : pc[q] = "idle") =>
            acqOut[p].outcome.kind = "return"

\* two runs for different URLs have both returned their transcripts
C30_DifferentUrls ==
    /\ \A p \in Slots : pc[p] = "Generate" /\ acqOut[p].outcome.kind = "return"
    /\ req[1].url # req[2].url

\* two users' runs for the same URL: one has returned its transcript, the
\* other has failed for a missing file and its create_note has ended with
\* the acquirer's 500
C30_SameUrlFails ==
    /\ req[1].url = req[2].url
    /\ req[1].user # req[2].user
    /\ pc[1] = "Generate"
    /\ acqOut[1].outcome.kind = "return"
    /\ pc[2] = "done"
    /\ acqOut[2].outcome.kind = "http"
    /\ result[2] = acqOut[2].outcome
    /\ Range(FileNotFound) \subseteq Range(result[2].detail)

====
